---- MODULE Spec2Model ----
(***************************************************************************)
(* Cyclic multi-page record reconstruction of the Archibald PDF parsers    *)
(* (scripts/parse-orders-pdf.py, parse-invoices-pdf.py, parse-ddt-pdf.py,  *)
(* parse-prices-pdf.py).  A document is a sequence of pages; every page    *)
(* carries the first table pdfplumber detects on it.  Text is a tuple of   *)
(* one-character strings, so that strip/upper/substring are computed.      *)
(***************************************************************************)
EXTENDS Integers, Sequences, FiniteSets, TLC

(***************************************************************************)
(* Bounds of the document family.                                          *)
(***************************************************************************)
MaxRows == 2
MaxCycles == 2
MaxTail == 1
MaxScanPages == 4

(***************************************************************************)
(* Python values: None, str as a tuple of characters.                      *)
(***************************************************************************)
None == <<"None">>

Falsy(v) == v = None \/ v = <<>>

WS == {" ", "\n"}

RECURSIVE LStrip(_)
LStrip(s) ==
    IF s # <<>> /\ Head(s) \in WS THEN LStrip(Tail(s)) ELSE s

RECURSIVE RStrip(_)
RStrip(s) ==
    IF s # <<>> /\ s[Len(s)] \in WS THEN RStrip(SubSeq(s, 1, Len(s) - 1)) ELSE s

Strip(s) == RStrip(LStrip(s))

LowerCase ==
    <<"a","b","c","d","e","f","g","h","i","j","k","l","m",
      "n","o","p","q","r","s","t","u","v","w","x","y","z">>

UpperCase ==
    <<"A","B","C","D","E","F","G","H","I","J","K","L","M",
      "N","O","P","Q","R","S","T","U","V","W","X","Y","Z">>

LowerLetters == { LowerCase[i] : i \in 1..26 }

UpperOf == [c \in LowerLetters |-> UpperCase[CHOOSE i \in 1..26 : LowerCase[i] = c]]

UpperChar(c) == IF c \in LowerLetters THEN UpperOf[c] ELSE c

Upper(s) == [i \in 1..Len(s) |-> UpperChar(s[i])]

\* the least index >= i of s whose character is in S, Len(s) + 1 when there is none
RECURSIVE FirstIn(_, _, _)
FirstIn(s, i, S) ==
    IF i > Len(s) THEN Len(s) + 1
    ELSE IF s[i] \in S THEN i ELSE FirstIn(s, i + 1, S)

\* the least index >= i of s whose character is not in S, Len(s) + 1 when none
RECURSIVE FirstNotIn(_, _, _)
FirstNotIn(s, i, S) ==
    IF i > Len(s) THEN Len(s) + 1
    ELSE IF s[i] \notin S THEN i ELSE FirstNotIn(s, i + 1, S)

\* Python `needle in hay`
Contains(hay, needle) ==
    \E i \in 0..(Len(hay) - Len(needle)) :
        SubSeq(hay, i + 1, i + Len(needle)) = needle

Digits == <<"0","1","2","3","4","5","6","7","8","9">>

IsDigit(c) == \E i \in 1..10 : Digits[i] = c

DigitVal(c) == (CHOOSE i \in 1..10 : Digits[i] = c) - 1

AllDigits(s) == \A i \in 1..Len(s) : IsDigit(s[i])

RECURSIVE ToInt(_)
ToInt(s) ==
    IF s = <<>> THEN 0
    ELSE 10 * ToInt(SubSeq(s, 1, Len(s) - 1)) + DigitVal(s[Len(s)])

\* "%02d" / "%04d" of a non-negative integer
RECURSIVE Pad(_, _)
Pad(n, width) ==
    IF width = 0 THEN <<>>
    ELSE Pad(n \div 10, width - 1) \o <<Digits[(n % 10) + 1]>>

\* the pieces of s between occurrences of the character sep
RECURSIVE SplitOn(_, _)
SplitOn(s, sep) ==
    IF \E i \in 1..Len(s) : s[i] = sep
    THEN LET i == CHOOSE j \in 1..Len(s) :
                      s[j] = sep /\ \A k \in 1..(j - 1) : s[k] # sep
         IN  <<SubSeq(s, 1, i - 1)>> \o SplitOn(SubSeq(s, i + 1, Len(s)), sep)
    ELSE <<s>>

(***************************************************************************)
(* Field parsers.                                                          *)
(***************************************************************************)
IsLeap(y) == (y % 4 = 0 /\ y % 100 # 0) \/ y % 400 = 0

DaysInMonth(m, y) ==
    IF m = 2 THEN (IF IsLeap(y) THEN 29 ELSE 28)
    ELSE IF m \in {4, 6, 9, 11} THEN 30 ELSE 31

\* strptime(s, "%d/%m/%Y") succeeds: day and month of one or two digits, a
\* four-digit year, and a day that exists in that month
ValidDMY(s) ==
    LET p == SplitOn(s, "/") IN
    /\ Len(p) = 3
    /\ Len(p[1]) \in {1, 2} /\ AllDigits(p[1])
    /\ Len(p[2]) \in {1, 2} /\ AllDigits(p[2])
    /\ Len(p[3]) = 4 /\ AllDigits(p[3])
    /\ ToInt(p[3]) >= 1
    /\ ToInt(p[2]) \in 1..12
    /\ ToInt(p[1]) \in 1..DaysInMonth(ToInt(p[2]), ToInt(p[3]))

\* date.isoformat(): YYYY-MM-DD
IsoDate(s) ==
    LET p == SplitOn(s, "/") IN
    Pad(ToInt(p[3]), 4) \o <<"-">> \o Pad(ToInt(p[2]), 2) \o <<"-">> \o Pad(ToInt(p[1]), 2)

\* a faulty variant: day and month exchanged in the output
parse_italian_date_swapped(date_str) ==
    IF Falsy(date_str) \/ Strip(date_str) = <<>> THEN None
    ELSE IF ValidDMY(Strip(date_str))
         THEN LET p == SplitOn(Strip(date_str), "/") IN
              Pad(ToInt(p[3]), 4) \o <<"-">> \o Pad(ToInt(p[1]), 2) \o <<"-">> \o Pad(ToInt(p[2]), 2)
         ELSE None

parse_italian_date(date_str) ==
    IF Falsy(date_str) \/ Strip(date_str) = <<>> THEN None
    ELSE IF ValidDMY(Strip(date_str)) THEN IsoDate(Strip(date_str)) ELSE None

\* strptime(s, "%H:%M:%S") part of the date-time pattern
ValidHMS(s) ==
    LET p == SplitOn(s, ":") IN
    /\ Len(p) = 3
    /\ \A i \in 1..3 : Len(p[i]) \in {1, 2} /\ AllDigits(p[i])
    /\ ToInt(p[1]) \in 0..23
    /\ ToInt(p[2]) \in 0..59
    /\ ToInt(p[3]) \in 0..59

IsoTime(s) ==
    LET p == SplitOn(s, ":") IN
    Pad(ToInt(p[1]), 2) \o <<":">> \o Pad(ToInt(p[2]), 2) \o <<":">> \o Pad(ToInt(p[3]), 2)

\* the date and the time of "DD/MM/YYYY HH:MM:SS": the space of the pattern
\* matches one or more blanks
DateTimeParts(s) ==
    LET i == FirstIn(s, 1, WS)
        j == FirstNotIn(s, i, WS)
    IN IF i <= Len(s) /\ j <= Len(s)
       THEN <<SubSeq(s, 1, i - 1), SubSeq(s, j, Len(s))>>
       ELSE <<>>

parse_italian_datetime(date_str) ==
    IF Falsy(date_str) \/ Strip(date_str) = <<>> THEN None
    ELSE LET q == DateTimeParts(Strip(date_str)) IN
         IF q # <<>> /\ ValidDMY(q[1]) /\ ValidHMS(q[2])
         THEN IsoDate(q[1]) \o <<"T">> \o IsoTime(q[2])
         ELSE None

(***************************************************************************)
(* Column labels of the exports, as the parsers spell them.                *)
(***************************************************************************)
L_ID ==
    <<"I","D">>

L_ID_DI_VENDITA ==
    <<"I","D"," ","D","I"," ","V","E","N","D","I","T","A">>

L_PROFILO_CLIENTE ==
    <<"P","R","O","F","I","L","O"," ","C","L","I","E","N","T","E">>

L_NOME_VENDITE ==
    <<"N","O","M","E"," ","V","E","N","D","I","T","E">>

L_NOME_DI_CONSEGNA ==
    <<"N","O","M","E"," ","D","I"," ","C","O","N","S","E","G","N","A">>

L_INDIRIZZO_DI_CONSEGNA ==
    <<"I","N","D","I","R","I","Z","Z","O"," ","D","I"," ","C","O","N","S","E","G","N","A">>

L_DATA_DI_CREAZIONE ==
    <<"D","A","T","A"," ","D","I"," ","C","R","E","A","Z","I","O","N","E">>

L_DATA_DI_CONSEGNA ==
    <<"D","A","T","A"," ","D","I"," ","C","O","N","S","E","G","N","A">>

L_RIMANI_VENDITE_FINANZIARIE ==
    <<"R","I","M","A","N","I"," ","V","E","N","D","I","T","E"," ","F","I","N","A","N","Z","I","A","R","I","E">>

L_RIFERIMENTO_CLIENTE ==
    <<"R","I","F","E","R","I","M","E","N","T","O"," ","C","L","I","E","N","T","E">>

L_STATO_DELLE_VENDITE ==
    <<"S","T","A","T","O"," ","D","E","L","L","E"," ","V","E","N","D","I","T","E">>

L_TIPO_DI_ORDINE ==
    <<"T","I","P","O"," ","D","I"," ","O","R","D","I","N","E">>

L_STATO_DEL_DOCUMENTO ==
    <<"S","T","A","T","O"," ","D","E","L"," ","D","O","C","U","M","E","N","T","O">>

L_ORIGINE_VENDITE ==
    <<"O","R","I","G","I","N","E"," ","V","E","N","D","I","T","E">>

L_STATO_DEL_TRASFERIMENTO ==
    <<"S","T","A","T","O"," ","D","E","L"," ","T","R","A","S","F","E","R","I","M","E","N","T","O">>

L_DATA_DI_TRASFERIMENTO ==
    <<"D","A","T","A"," ","D","I"," ","T","R","A","S","F","E","R","I","M","E","N","T","O">>

L_DATA_DI_COMPLETAMENTO ==
    <<"D","A","T","A"," ","D","I"," ","C","O","M","P","L","E","T","A","M","E","N","T","O">>

L_APPLICA_SCONTO ==
    <<"A","P","P","L","I","C","A"," ","S","C","O","N","T","O">>

L_IMPORTO_LORDO ==
    <<"I","M","P","O","R","T","O"," ","L","O","R","D","O">>

L_IMPORTO_TOTALE ==
    <<"I","M","P","O","R","T","O"," ","T","O","T","A","L","E">>

L_ID_FATTURA ==
    <<"I","D"," ","F","A","T","T","U","R","A">>

L_DATA_FATTURA ==
    <<"D","A","T","A"," ","F","A","T","T","U","R","A">>

L_CONTO_FATTURE ==
    <<"C","O","N","T","O"," ","F","A","T","T","U","R","E">>

L_NOME_DI_FATTURAZIONE ==
    <<"N","O","M","E"," ","D","I"," ","F","A","T","T","U","R","A","Z","I","O","N","E">>

L_QUANTITA ==
    <<"Q","U","A","N","T","I","T","À">>

L_SALDO_VENDITE_MST ==
    <<"S","A","L","D","O"," ","V","E","N","D","I","T","E"," ","M","S","T">>

L_SOMMA_LINEA ==
    <<"S","O","M","M","A"," ","L","I","N","E","A">>

L_SCONTO_MST ==
    <<"S","C","O","N","T","O"," ","M","S","T">>

L_SOMMA_FISCALE_MST ==
    <<"S","O","M","M","A"," ","F","I","S","C","A","L","E"," ","M","S","T">>

L_IMPORTO_FATTURA_MST ==
    <<"I","M","P","O","R","T","O"," ","F","A","T","T","U","R","A"," ","M","S","T">>

L_ORDINE_DI_ACQUISTO ==
    <<"O","R","D","I","N","E"," ","D","I"," ","A","C","Q","U","I","S","T","O">>

L_SCADENZA ==
    <<"S","C","A","D","E","N","Z","A">>

L_ID_TERMINE_DI_PAGAMENTO ==
    <<"I","D"," ","T","E","R","M","I","N","E"," ","D","I"," ","P","A","G","A","M","E","N","T","O">>

L_OLTRE_I_GIORNI_DI_SCADENZA ==
    <<"O","L","T","R","E"," ","I"," ","G","I","O","R","N","I"," ","D","I"," ","S","C","A","D","E","N","Z","A">>

L_LIQUIDA ==
    <<"L","I","Q","U","I","D","A">>

L_IMPORTO_MST ==
    <<"I","M","P","O","R","T","O"," ","M","S","T">>

L_IDENTIFICATIVO_ULTIMO_PAGAMENTO ==
    <<"I","D","E","N","T","I","F","I","C","A","T","I","V","O"," ","U","L","T","I","M","O"," ","P","A","G","A","M","E","N","T","O">>

L_DATA_DI_ULTIMA_LIQUIDAZIONE ==
    <<"D","A","T","A"," ","D","I"," ","U","L","T","I","M","A"," ","L","I","Q","U","I","D","A","Z","I","O","N","E">>

L_CHIUSO ==
    <<"C","H","I","U","S","O">>

L_IMPORTO_RIMANENTE_MST ==
    <<"I","M","P","O","R","T","O"," ","R","I","M","A","N","E","N","T","E"," ","M","S","T">>

L_ID_VENDITE ==
    <<"I","D"," ","V","E","N","D","I","T","E">>

(***************************************************************************)
(* Column resolution.  A table is a sequence of rows, row 1 the header     *)
(* (Python index 0); row_idx below is the Python index.                    *)
(***************************************************************************)
\* the first column whose header contains the label, 0 when there is none
\* or the row has no such cell: the loop of get_column_value returns at the
\* first header that matches and has a cell, and goes on otherwise
MatchingColumns(header_row, data_row, header_text) ==
    LET wanted == Upper(header_text) IN
    { idx \in 1..Len(header_row) :
        /\ idx <= Len(data_row)
        /\ ~Falsy(header_row[idx])
        /\ Contains(Upper(header_row[idx]), wanted) }

\* a faulty variant: the last matching column instead of the first
get_column_value_last(table, row_idx, header_text) ==
    IF table = <<>> \/ Len(table) < 2 THEN None
    ELSE IF row_idx >= Len(table) THEN None
    ELSE LET cols == MatchingColumns(table[1], table[row_idx + 1], header_text) IN
         IF cols = {} THEN None
         ELSE LET idx == CHOOSE i \in cols : \A j \in cols : j <= i
                  value == table[row_idx + 1][idx]
              IN  IF value = None \/ Strip(value) = <<>> THEN None ELSE Strip(value)

get_column_value(table, row_idx, header_text) ==
    IF table = <<>> \/ Len(table) < 2 THEN None
    ELSE IF row_idx >= Len(table) THEN None
    ELSE LET cols == MatchingColumns(table[1], table[row_idx + 1], header_text) IN
         IF cols = {} THEN None
         ELSE LET idx == CHOOSE i \in cols : \A j \in cols : i <= j
                  value == table[row_idx + 1][idx]
              IN  IF value = None \/ Strip(value) = <<>> THEN None ELSE Strip(value)

\* re.sub(r"\s+", " ", text): every run of blanks becomes one space
RECURSIVE CollapseWS(_)
CollapseWS(s) ==
    IF s = <<>> THEN <<>>
    ELSE IF Head(s) \in WS
         THEN <<" ">> \o CollapseWS(LStrip(s))
         ELSE <<Head(s)>> \o CollapseWS(Tail(s))

normalize_multiline(text) ==
    IF Falsy(text) THEN None ELSE CollapseWS(Strip(text))

\* PricesPDFParser._get_cell: row is a sequence of cells, index the Python index
_get_cell(row, index) ==
    IF row = <<>> \/ index >= Len(row) THEN None
    ELSE IF row[index + 1] = None THEN None
    ELSE IF Strip(row[index + 1]) # <<>> THEN Strip(row[index + 1]) ELSE None

(***************************************************************************)
(* Cell texts of the document family.                                      *)
(***************************************************************************)
T_KEY == <<" ","7","1">>

T_ZERO == <<"0">>

T_BLANK == <<" ">>

T_A == <<"a">>

T_B == <<"B","1">>

T_ADDR == <<"V","i","a","\n","1">>

T_AMOUNT == <<"2",",","5","0"," ","E">>

\* "20/01/2026 12:04:22"
D_CREATED ==
    <<"2","0","/","0","1","/","2","0","2","6"," ","1","2",":","0","4",":","2","2">>

\* "21/01/2026"
D_DAY == <<"2","1","/","0","1","/","2","0","2","6">>

\* "31/02/2026": no such day
D_BAD == <<"3","1","/","0","2","/","2","0","2","6">>

\* the key cell of the line of totals that ends an export: "Count=2"
T_COUNT == <<"C","o","u","n","t","=","2">>

(***************************************************************************)
(* The parsers, their cycle sizes and their tables.  Slots are numbered    *)
(* from 1 (the code's tables[0] is slot 1).                                *)
(***************************************************************************)
Parsers == {"orders", "invoices", "ddt", "prices"}

ORDERS_CYCLE == 7

INVOICES_CYCLE == 7

EXPECTED_CYCLE_SIZE == 6

PAGES_PER_CYCLE == 3

\* ProductsPDFParser.PAGES_PER_CYCLE
PRODUCTS_PAGES_PER_CYCLE == 8

\* CustomerPDFParser: cycles = num_pages // 8
CLIENTI_CYCLE == 8

\* the cycle length of the export each parser is written for
Layout(p) ==
    CASE p = "orders" -> ORDERS_CYCLE
      [] p = "invoices" -> INVOICES_CYCLE
      [] p = "ddt" -> EXPECTED_CYCLE_SIZE
      [] p = "prices" -> PAGES_PER_CYCLE
      [] p = "products" -> PRODUCTS_PAGES_PER_CYCLE
      [] p = "clienti" -> CLIENTI_CYCLE

OrdersHeader(s) ==
    CASE s = 1 ->
          << L_ID,
             L_ID_DI_VENDITA,
             L_PROFILO_CLIENTE,
             L_NOME_VENDITE >>
      [] s = 2 ->
          << L_NOME_DI_CONSEGNA,
             L_INDIRIZZO_DI_CONSEGNA >>
      [] s = 3 ->
          << L_DATA_DI_CREAZIONE,
             L_DATA_DI_CONSEGNA,
             L_RIMANI_VENDITE_FINANZIARIE >>
      [] s = 4 ->
          << L_RIFERIMENTO_CLIENTE,
             L_STATO_DELLE_VENDITE,
             L_TIPO_DI_ORDINE,
             L_STATO_DEL_DOCUMENTO >>
      [] s = 5 ->
          << L_ORIGINE_VENDITE,
             L_STATO_DEL_TRASFERIMENTO,
             L_DATA_DI_TRASFERIMENTO >>
      [] s = 6 ->
          << L_DATA_DI_COMPLETAMENTO,
             <<"P","R","E","V","E","N","T","I","V","O">>,
             L_APPLICA_SCONTO \o <<" ","%">>,
             L_IMPORTO_LORDO >>
      [] s = 7 ->
          << L_IMPORTO_TOTALE,
             <<"O","R","D","I","N","E"," ","O","M","A","G","G","I","O">> >>

OrdersKinds ==
    {"valid", "keyNone", "keyBlank", "keyZero", "keyFooter", "badRequired", "badDate"}

OrdersRow(s, kind) ==
    CASE s = 1 -> << CASE kind = "keyNone" -> None
                       [] kind = "keyBlank" -> T_BLANK
                       [] kind = "keyZero" -> T_ZERO
                       [] kind = "keyFooter" -> T_COUNT
                       [] OTHER -> T_KEY,
                     T_B, T_A, T_A >>
      [] s = 2 -> <<T_A, T_ADDR>>
      [] s = 3 -> << IF kind = "badRequired" THEN D_BAD ELSE D_CREATED,
                     IF kind = "badDate" THEN D_BAD ELSE D_DAY,
                     T_AMOUNT >>
      [] s = 4 -> <<T_A, T_A, T_A, T_A>>
      [] s = 5 -> <<T_A, T_A, D_DAY>>
      [] s = 6 -> <<D_DAY, T_A, T_A, T_AMOUNT>>
      [] s = 7 -> <<T_AMOUNT, None>>

T_DDT == <<"D","D","T","/","2","6">>

T_ORD == <<"O","R","D","/","2","6">>

T_TRACK == <<"f","e","d","e","x"," ","4","4","5">>

InvoicesHeader(s) ==
    CASE s = 1 ->
          << <<"F","A","T","T","U","R","A"," ","P","D","F">>,
             L_ID_FATTURA,
             L_DATA_FATTURA,
             L_CONTO_FATTURE >>
      [] s = 2 ->
          << L_NOME_DI_FATTURAZIONE,
             L_QUANTITA,
             L_SALDO_VENDITE_MST >>
      [] s = 3 ->
          << L_SOMMA_LINEA,
             L_SCONTO_MST,
             <<"S","C","O","N","T","O"," ","T","O","T","A","L","E",":">>,
             L_SOMMA_FISCALE_MST,
             L_IMPORTO_FATTURA_MST >>
      [] s = 4 ->
          << L_ORDINE_DI_ACQUISTO,
             L_RIFERIMENTO_CLIENTE,
             L_SCADENZA >>
      [] s = 5 ->
          << L_ID_TERMINE_DI_PAGAMENTO,
             L_OLTRE_I_GIORNI_DI_SCADENZA >>
      [] s = 6 ->
          << L_LIQUIDA,
             L_IMPORTO_MST,
             L_IDENTIFICATIVO_ULTIMO_PAGAMENTO,
             L_DATA_DI_ULTIMA_LIQUIDAZIONE >>
      [] s = 7 ->
          << L_CHIUSO,
             L_IMPORTO_RIMANENTE_MST,
             L_ID_VENDITE >>

InvoicesKinds == {"valid", "keyNone", "keyZero", "keyFooter", "accountNone", "badDate"}

InvoicesRow(s, kind) ==
    CASE s = 1 -> << T_A,
                     CASE kind = "keyNone" -> None
                       [] kind = "keyZero" -> T_ZERO
                       [] kind = "keyFooter" -> T_COUNT
                       [] OTHER -> T_KEY,
                     IF kind = "badDate" THEN D_BAD ELSE D_DAY,
                     IF kind = "accountNone" THEN None ELSE T_B >>
      [] s = 2 -> <<T_A, T_A, T_AMOUNT>>
      [] s = 3 -> <<T_AMOUNT, T_AMOUNT, T_AMOUNT, T_AMOUNT, T_AMOUNT>>
      [] s = 4 -> <<T_A, T_A, D_DAY>>
      [] s = 5 -> <<T_A, T_A>>
      [] s = 6 -> <<T_A, T_AMOUNT, T_A, D_DAY>>
      [] s = 7 -> <<T_A, T_AMOUNT, T_ORD>>

DdtHeader(s) ==
    CASE s = 1 ->
          << <<"P","D","F"," ","D","D","T">>,
             L_ID,
             <<"D","O","C","U","M","E","N","T","O"," ","D","I"," ","T","R","A","S","P","O","R","T","O">>,
             L_DATA_DI_CONSEGNA,
             L_ID_DI_VENDITA >>
      [] s = 2 ->
          << <<"C","O","N","T","O">>,
             L_NOME_VENDITE >>
      [] s = 3 ->
          << L_NOME_DI_CONSEGNA,
             L_INDIRIZZO_DI_CONSEGNA >>
      [] s = 4 ->
          << <<"T","O","T","A","L","E">>,
             L_RIFERIMENTO_CLIENTE,
             <<"D","E","S","C","R","I","Z","I","O","N","E">> >>
      [] s = 5 ->
          << <<"N","U","M","E","R","O"," ","D","I"," ","T","R","A","C","C","I","A","B","I","L","I","T","À">>,
             <<"T","E","R","M","I","N","I"," ","D","I"," ","C","O","N","S","E","G","N","A">> >>
      [] s = 6 ->
          << <<"M","O","D","A","L","I","T","À"," ","D","I"," ","C","O","N","S","E","G","N","A">>,
             <<"A","L","L","'","A","T","T","E","N","Z","I","O","N","E"," ","D","I">>,
             <<"C","I","T","T","À"," ","D","I"," ","C","O","N","S","E","G","N","A">> >>

DdtKinds ==
    {"valid", "keyNone", "keyZero", "keyFooter", "numberNone", "orderNone", "badDate"}

DdtRow(s, kind) ==
    CASE s = 1 -> << T_A,
                     CASE kind = "keyNone" -> None
                       [] kind = "keyZero" -> T_ZERO
                       [] kind = "keyFooter" -> T_COUNT
                       [] OTHER -> T_KEY,
                     IF kind = "numberNone" THEN None ELSE T_DDT,
                     IF kind = "badDate" THEN D_BAD ELSE D_DAY,
                     IF kind = "orderNone" THEN None ELSE T_ORD >>
      [] s = 2 -> <<T_B, T_A>>
      [] s = 3 -> <<T_A, T_ADDR>>
      [] s = 4 -> <<T_AMOUNT, T_A, T_A>>
      [] s = 5 -> <<T_TRACK, T_A>>
      [] s = 6 -> <<T_A, None, T_A>>

PricesHeader(s) ==
    CASE s = 1 ->
          << L_ID,
             <<"C","O","D","I","C","E"," ","C","O","N","T","O">>,
             <<"A","C","C","O","U","N","T",":">>,
             <<"D","E","S","C","R","I","Z","I","O","N","E"," ","A","C","C","O","U","N","T",":">>,
             <<"I","T","E","M"," ","S","E","L","E","C","T","I","O","N",":">> >>
      [] s = 2 ->
          << <<"I","T","E","M"," ","D","E","S","C","R","I","P","T","I","O","N",":">>,
             <<"D","A"," ","D","A","T","A">>,
             <<"D","A","T","A">>,
             <<"Q","U","A","N","T","I","T","À","I","M","P","O","R","T","O","D","A">> >>
      [] s = 3 ->
          << <<"Q","U","A","N","T","I","T","À","I","M","P","O","R","T","O">>,
             <<"U","N","I","T","À"," ","D","I"," ","P","R","E","Z","Z","O">>,
             <<"I","M","P","O","R","T","O"," ","U","N","I","T","A","R","I","O",":">>,
             <<"V","A","L","U","T","A">>,
             <<"P","R","E","Z","Z","O"," ","N","E","T","T","O"," ","B","R","A","S","S","E","L","E","R">> >>

PricesKinds == {"valid", "keyNone", "keyBlank", "keyZero", "keyFooter"}

PricesRow(s, kind) ==
    CASE s = 1 -> << CASE kind = "keyNone" -> None
                       [] kind = "keyBlank" -> T_BLANK
                       [] kind = "keyZero" -> T_ZERO
                       [] kind = "keyFooter" -> T_COUNT
                       [] OTHER -> T_KEY,
                     T_B, T_A, T_A, T_A >>
      [] s = 2 -> <<T_A, D_DAY, D_DAY, T_A>>
      [] s = 3 -> <<T_A, T_A, T_AMOUNT, T_A, None>>

ProductsHeader(s) ==
    CASE s = 1 ->
          << <<"I","D"," ","A","R","T","I","C","O","L","O">>,
             <<"N","O","M","E"," ","A","R","T","I","C","O","L","O">>,
             <<"D","E","S","C","R","I","Z","I","O","N","E">> >>
      [] s = 2 ->
          << <<"G","R","U","P","P","O"," ","A","R","T","I","C","O","L","O">>,
             <<"C","O","N","T","E","N","U","T","O"," ","D","E","L","L","'","I","M","B","A","L","L","A","G","G","I","O">>,
             <<"N","O","M","E"," ","D","E","L","L","A"," ","R","I","C","E","R","C","A">> >>
      [] s = 3 ->
          << <<"U","N","I","T","À"," ","D","I"," ","P","R","E","Z","Z","O">>,
             <<"I","D"," ","G","R","U","P","P","O"," ","D","I"," ","P","R","O","D","O","T","T","I">>,
             <<"D","E","S","C","R","I","Z","I","O","N","E"," ","G","R","U","P","P","O"," ","A","R","T","I","C","O","L","O">>,
             <<"Q","T","À"," ","M","I","N","I","M","A">> >>
      [] s = 4 ->
          << <<"Q","T","À"," ","M","U","L","T","I","P","L","I">>,
             <<"Q","T","À"," ","M","A","S","S","I","M","A">>,
             <<"F","I","G","U","R","A">>,
             <<"I","D"," ","I","N"," ","B","L","O","C","C","O"," ","D","E","L","L","'","A","R","T","I","C","O","L","O">>,
             <<"P","A","C","C","O"," ","G","A","M","B","A">> >>
      [] s = 5 ->
          << <<"G","R","A","N","D","E","Z","Z","A">>,
             <<"I","D"," ","D","I"," ","C","O","N","F","I","G","U","R","A","Z","I","O","N","E">>,
             <<"C","R","E","A","T","O"," ","D","A">>,
             <<"D","A","T","A"," ","C","R","E","A","T","A">>,
             <<"D","A","T","A","A","R","E","A","I","D">> >>
      [] s = 6 ->
          << <<"Q","T","À"," ","P","R","E","D","E","F","I","N","I","T","A">>,
             <<"V","I","S","U","A","L","I","Z","Z","A"," ","I","L"," ","N","U","M","E","R","O"," ","D","I"," ","P","R","O","D","O","T","T","O">>,
             <<"S","C","O","N","T","O"," ","A","S","S","O","L","U","T","O"," ","T","O","T","A","L","E">>,
             <<"I","D">> >>
      [] s = 7 ->
          << <<"S","C","O","N","T","O"," ","L","I","N","E","A">>,
             <<"M","O","D","I","F","I","C","A","T","O"," ","D","A">>,
             <<"D","A","T","E","T","I","M","E"," ","M","O","D","I","F","I","C","A","T","O">>,
             <<"A","R","T","I","C","O","L","O"," ","O","R","D","I","N","A","B","I","L","E">> >>
      [] s = 8 ->
          << <<"P","U","R","C","H"," ","P","R","I","C","E">>,
             <<"P","C","S"," ","I","D"," ","D","I"," ","C","O","N","F","I","G","U","R","A","Z","I","O","N","E"," ","S","T","A","N","D","A","R","D">>,
             <<"Q","T","À"," ","S","T","A","N","D","A","R","D">>,
             <<"F","E","R","M","A","T","O">>,
             <<"I","D"," ","U","N","I","T","À">> >>

ProductsKinds == {"valid", "keyNone", "keyBlank", "keyZero", "keyFooter"}

ProductsRow(s, kind) ==
    CASE s = 1 -> << CASE kind = "keyNone" -> None
                       [] kind = "keyBlank" -> T_BLANK
                       [] kind = "keyZero" -> T_ZERO
                       [] kind = "keyFooter" -> T_COUNT
                       [] OTHER -> T_KEY,
                     T_B, T_ADDR >>
      [] s = 2 -> <<T_A, T_BLANK, None>>
      [] s = 3 -> <<T_A, T_B, T_A, T_AMOUNT>>
      [] s = 4 -> <<T_A, T_A, T_A, T_B, None>>
      [] s = 5 -> <<T_A, T_B, T_A, D_DAY, T_A>>
      [] s = 6 -> <<T_A, T_A, T_AMOUNT, T_KEY>>
      [] s = 7 -> <<T_AMOUNT, T_A, D_CREATED, T_A>>
      [] s = 8 -> <<T_AMOUNT, T_B, T_A, T_A, T_A>>

(***************************************************************************)
(* The document family.  A page is the outcome of extracting its tables:   *)
(* the first table (<<>> when none is detected), or an exception.          *)
(***************************************************************************)
Page(table) == [raises |-> FALSE, table |-> table]

RaisingPage == [raises |-> TRUE, table |-> <<>>]

Header(p, s) ==
    CASE p = "orders" -> OrdersHeader(s)
      [] p = "invoices" -> InvoicesHeader(s)
      [] p = "ddt" -> DdtHeader(s)
      [] p = "prices" -> PricesHeader(s)
      [] p = "products" -> ProductsHeader(s)

Row(p, s, kind) ==
    CASE p = "orders" -> OrdersRow(s, kind)
      [] p = "invoices" -> InvoicesRow(s, kind)
      [] p = "ddt" -> DdtRow(s, kind)
      [] p = "prices" -> PricesRow(s, kind)
      [] p = "products" -> ProductsRow(s, kind)

Kinds(p) ==
    CASE p = "orders" -> OrdersKinds
      [] p = "invoices" -> InvoicesKinds
      [] p = "ddt" -> DdtKinds
      [] p = "prices" -> PricesKinds
      [] p = "products" -> ProductsKinds

\* the slots whose table the family makes shorter than the anchor's, or absent
ShortSlots(p) == {2, 3}

SlotTable(p, s, kinds, n) ==
    <<Header(p, s)>> \o [i \in 1..n |-> Row(p, s, kinds[i])]

\* one cycle of pages: the rows of the given kinds in every slot, except that
\* slot `which` is one row short, has no table, or cannot be extracted
CyclePages(p, shape) ==
    [s \in 1..Layout(p) |->
        IF s = shape.which /\ shape.mode = "raises" THEN RaisingPage
        ELSE IF s = shape.which /\ shape.mode = "missing" THEN Page(<<>>)
        ELSE IF s = shape.which /\ shape.mode = "short"
             THEN Page(SlotTable(p, s, shape.kinds, Len(shape.kinds) - 1))
             ELSE Page(SlotTable(p, s, shape.kinds, Len(shape.kinds)))]

KindSeqs(p) == UNION { [1..n -> Kinds(p)] : n \in 0..MaxRows }

PlainKinds == <<"valid", "valid">>

PlainShape == [kinds |-> PlainKinds, mode |-> "full", which |-> 0]

Shapes(p) ==
    { [kinds |-> k, mode |-> "full", which |-> 0] : k \in KindSeqs(p) }
    \cup { [kinds |-> [i \in 1..n |-> "valid"], mode |-> m, which |-> w] :
             n \in 1..MaxRows, m \in {"short", "missing"}, w \in ShortSlots(p) }
    \cup { [kinds |-> PlainKinds, mode |-> m, which |-> w] :
             m \in {"missing", "raises"}, w \in {1, Layout(p)} }

RECURSIVE PlainCycles(_, _)
PlainCycles(p, n) ==
    IF n = 0 THEN <<>> ELSE CyclePages(p, PlainShape) \o PlainCycles(p, n - 1)

Documents(p) ==
    { PlainCycles(p, x[2]) \o CyclePages(p, x[1]) \o PlainCycles(p, x[3]) :
        x \in { y \in Shapes(p) \X (0..(MaxCycles - 1)) \X (0..(MaxCycles - 1)) :
                   y[2] + y[3] < MaxCycles } }
    \cup { PlainCycles(p, n) \o SubSeq(CyclePages(p, PlainShape), 1, t) :
             n \in 0..(MaxCycles - 1), t \in 0..MaxTail }

(***************************************************************************)
(* State.                                                                  *)
(***************************************************************************)
VARIABLES
    parser,        \* which script runs
    argc,          \* len(sys.argv): 2 when the path of the document is given
    readable,      \* the file at that path can be opened as a PDF
    pdf,           \* the document: the sequence of its pages
    pc,            \* position of the run
    cycle_size,    \* pages per cycle (fixed, or detected)
    total_pages,   \* len(pdf.pages)
    cycle_idx,     \* index of the cycle at hand (cycle_start = cycle_idx * cycle_size)
    tables,        \* the tables held for the cycle at hand
    row_idx,       \* Python index of the row at hand
    prices,        \* the list PricesPDFParser.parse() builds and returns
    out,           \* records handed to the consumer (stdout), in order
    err,           \* lines on stderr, in order
    exit_code,     \* -1 while running
    page_idx,      \* cycle detector: the page the scan is at
    anchor_pages,  \* cycle detector: the anchor pages found so far
    handles,       \* the handles on the document that are open
    peak_handles,  \* the most handles that were open at one time so far
    all_tables,    \* products: the tables of all the pages read so far
    products,      \* products: the list _parse_cyclic_tables builds
    all_pages_lines, \* customers: the lines of all the pages read so far
    customers,     \* customers: the list parse() returns
    tracking_text, \* extract_tracking_info on its own: the argument `text`
    tracking_info, \* extract_tracking_info on its own: the tuple returned
    field_fn,      \* a field parser on its own: which one is called
    field_arg,     \* a field parser on its own: the argument of the call
    field_result,  \* a field parser on its own: what the call returned
    requested      \* the cycle last extracted and the page indices asked of pdf.pages for it

vars ==
    <<parser, argc, readable, pdf, pc, cycle_size, total_pages, cycle_idx, tables, row_idx,
      prices, out, err, exit_code, page_idx, anchor_pages, handles, peak_handles,
      all_tables, products, all_pages_lines, customers, tracking_text, tracking_info,
      field_fn, field_arg, field_result, requested>>

\* no field parser is called on its own
NoFieldCall == field_fn = "none" /\ field_arg = None

\* what the run is given, and never changes
input == <<parser, argc, readable, pdf, tracking_text, field_fn, field_arg>>

\* the state of the parsers that read the whole document before they parse it
batch == <<all_tables, products, all_pages_lines, customers>>

Warning(cycle, row) == [kind |-> "Warning", cycle |-> cycle, row |-> row]

Skip == [outcome |-> "skip", record |-> None, printed |-> <<>>]

Yield(r) == [outcome |-> "yield", record |-> r, printed |-> <<>>]

Raise(lines) == [outcome |-> "raise", record |-> None, printed |-> lines]

(***************************************************************************)
(* parse-orders-pdf.py: one iteration of the row loop.  t is the list of   *)
(* the seven tables.                                                       *)
(***************************************************************************)
orders_row(t, r) ==
    LET order_id == get_column_value(t[1], r, L_ID)
        creation_date_raw == get_column_value(t[3], r, L_DATA_DI_CREAZIONE)
        creation_date == parse_italian_datetime(creation_date_raw)
    IN
    IF Falsy(order_id) THEN Skip
    ELSE IF order_id = <<"0">> THEN Skip
    ELSE IF Falsy(creation_date)
         THEN Raise(<< [kind |-> "ERROR", id |-> order_id, raw |-> creation_date_raw],
                       [kind |-> "DEBUG"] >>)
    ELSE Yield([
        id |-> order_id,
        order_number |-> get_column_value(t[1], r, L_ID_DI_VENDITA),
        customer_profile_id |-> get_column_value(t[1], r, L_PROFILO_CLIENTE),
        customer_name |-> get_column_value(t[1], r, L_NOME_VENDITE),
        delivery_name |-> get_column_value(t[2], r, L_NOME_DI_CONSEGNA),
        delivery_address |->
            normalize_multiline(get_column_value(t[2], r, L_INDIRIZZO_DI_CONSEGNA)),
        creation_date |-> creation_date,
        delivery_date |-> parse_italian_date(get_column_value(t[3], r, L_DATA_DI_CONSEGNA)),
        remaining_sales_financial |->
            get_column_value(t[3], r, L_RIMANI_VENDITE_FINANZIARIE),
        customer_reference |-> get_column_value(t[4], r, L_RIFERIMENTO_CLIENTE),
        sales_status |-> get_column_value(t[4], r, L_STATO_DELLE_VENDITE),
        order_type |-> get_column_value(t[4], r, L_TIPO_DI_ORDINE),
        document_status |-> get_column_value(t[4], r, L_STATO_DEL_DOCUMENTO),
        sales_origin |-> get_column_value(t[5], r, L_ORIGINE_VENDITE),
        transfer_status |-> get_column_value(t[5], r, L_STATO_DEL_TRASFERIMENTO),
        transfer_date |->
            parse_italian_date(get_column_value(t[5], r, L_DATA_DI_TRASFERIMENTO)),
        completion_date |->
            parse_italian_date(get_column_value(t[6], r, L_DATA_DI_COMPLETAMENTO)),
        discount_percent |-> get_column_value(t[6], r, L_APPLICA_SCONTO),
        gross_amount |-> get_column_value(t[6], r, L_IMPORTO_LORDO),
        total_amount |-> get_column_value(t[7], r, L_IMPORTO_TOTALE) ])

(***************************************************************************)
(* parse-invoices-pdf.py: one iteration of the row loop.                   *)
(***************************************************************************)
invoices_row(t, r) ==
    LET invoice_id == get_column_value(t[1], r, L_ID_FATTURA)
        invoice_number == invoice_id
        customer_account == get_column_value(t[1], r, L_CONTO_FATTURE)
    IN
    IF Falsy(invoice_id) \/ Falsy(customer_account) THEN Skip
    ELSE IF invoice_id = <<"0">> \/ invoice_number = <<"0">> THEN Skip
    ELSE Yield([
        id |-> invoice_id,
        invoice_number |-> invoice_number,
        invoice_date |-> parse_italian_date(get_column_value(t[1], r, L_DATA_FATTURA)),
        customer_account |-> customer_account,
        billing_name |-> get_column_value(t[2], r, L_NOME_DI_FATTURAZIONE),
        quantity |-> get_column_value(t[2], r, L_QUANTITA),
        sales_balance |-> get_column_value(t[2], r, L_SALDO_VENDITE_MST),
        line_sum |-> get_column_value(t[3], r, L_SOMMA_LINEA),
        discount_amount |-> get_column_value(t[3], r, L_SCONTO_MST),
        tax_sum |-> get_column_value(t[3], r, L_SOMMA_FISCALE_MST),
        invoice_amount |-> get_column_value(t[3], r, L_IMPORTO_FATTURA_MST),
        purchase_order |-> get_column_value(t[4], r, L_ORDINE_DI_ACQUISTO),
        customer_reference |-> get_column_value(t[4], r, L_RIFERIMENTO_CLIENTE),
        due_date |-> parse_italian_date(get_column_value(t[4], r, L_SCADENZA)),
        payment_term_id |-> get_column_value(t[5], r, L_ID_TERMINE_DI_PAGAMENTO),
        days_past_due |-> get_column_value(t[5], r, L_OLTRE_I_GIORNI_DI_SCADENZA),
        settled |-> get_column_value(t[6], r, L_LIQUIDA),
        amount |-> get_column_value(t[6], r, L_IMPORTO_MST),
        last_payment_id |-> get_column_value(t[6], r, L_IDENTIFICATIVO_ULTIMO_PAGAMENTO),
        last_settlement_date |->
            parse_italian_date(get_column_value(t[6], r, L_DATA_DI_ULTIMA_LIQUIDAZIONE)),
        closed |-> get_column_value(t[7], r, L_CHIUSO),
        remaining_amount |-> get_column_value(t[7], r, L_IMPORTO_RIMANENTE_MST),
        order_number |-> get_column_value(t[7], r, L_ID_VENDITE) ])

(***************************************************************************)
(* parse-ddt-pdf.py: extract_tracking_info, with its regular expressions   *)
(* written out as scans over the characters.                               *)
(***************************************************************************)
LowerOf == [c \in { UpperCase[i] : i \in 1..26 } |->
               LowerCase[CHOOSE i \in 1..26 : UpperCase[i] = c]]

LowerChar(c) == IF c \in DOMAIN LowerOf THEN LowerOf[c] ELSE c

Lower(s) == [i \in 1..Len(s) |-> LowerChar(s[i])]

StartsWithAt(s, i, pat) ==
    i + Len(pat) - 1 <= Len(s) /\ SubSeq(s, i, i + Len(pat) - 1) = pat

RemoveAll(s, S) == SelectSeq(s, LAMBDA c : c \notin S)

\* href\s*=\s*["\']([^"\']+)["\'] matched at index i, ignoring case: the bounds
\* <<first, last>> of group 1, <<0, 0>> when there is no match at i
HrefAt(s, i) ==
    IF ~StartsWithAt(Lower(s), i, <<"h","r","e","f">>) THEN <<0, 0>>
    ELSE LET eq == FirstNotIn(s, i + 4, WS) IN
         IF eq > Len(s) \/ s[eq] # "=" THEN <<0, 0>>
         ELSE LET q == FirstNotIn(s, eq + 1, WS) IN
              IF q > Len(s) \/ s[q] \notin {"\"", "'"} THEN <<0, 0>>
              ELSE LET e == FirstIn(s, q + 1, {"\"", "'"}) IN
                   IF e > Len(s) \/ e = q + 1 THEN <<0, 0>> ELSE <<q + 1, e - 1>>

\* re.search of the href pattern: group 1 of the leftmost match, None without one
HrefGroup(s) ==
    LET hits == { i \in 1..Len(s) : HrefAt(s, i) # <<0, 0>> } IN
    IF hits = {} THEN None
    ELSE LET i == CHOOSE h \in hits : \A g \in hits : h <= g
         IN SubSeq(s, HrefAt(s, i)[1], HrefAt(s, i)[2])

\* >([^<]+)</a> matched at index i, ignoring case
TagTextAt(s, i) ==
    IF i > Len(s) \/ s[i] # ">" THEN <<0, 0>>
    ELSE LET e == FirstIn(s, i + 1, {"<"}) IN
         IF e = i + 1 \/ ~StartsWithAt(Lower(s), e, <<"<","/","a",">">>) THEN <<0, 0>>
         ELSE <<i + 1, e - 1>>

TagTextGroup(s) ==
    LET hits == { i \in 1..Len(s) : TagTextAt(s, i) # <<0, 0>> } IN
    IF hits = {} THEN None
    ELSE LET i == CHOOSE h \in hits : \A g \in hits : h <= g
         IN SubSeq(s, TagTextAt(s, i)[1], TagTextAt(s, i)[2])

\* re.sub(r'<[^>]+>', '', s), from index i on
RECURSIVE RemoveTagsFrom(_, _)
RemoveTagsFrom(s, i) ==
    IF i > Len(s) THEN <<>>
    ELSE LET e == FirstIn(s, i + 1, {">"}) IN
         IF s[i] = "<" /\ e <= Len(s) /\ e > i + 1
         THEN RemoveTagsFrom(s, e + 1)
         ELSE <<s[i]>> \o RemoveTagsFrom(s, i + 1)

\* re.sub(r'&[a-z]+;', '', s), from index i on
RECURSIVE RemoveEntitiesFrom(_, _)
RemoveEntitiesFrom(s, i) ==
    IF i > Len(s) THEN <<>>
    ELSE LET e == FirstNotIn(s, i + 1, LowerLetters) IN
         IF s[i] = "&" /\ e <= Len(s) /\ e > i + 1 /\ s[e] = ";"
         THEN RemoveEntitiesFrom(s, e + 1)
         ELSE <<s[i]>> \o RemoveEntitiesFrom(s, i + 1)

\* the order of the dict courier_patterns
Couriers ==
    << <<"f","e","d","e","x">>, <<"u","p","s">>, <<"d","h","l">>, <<"t","n","t">>,
       <<"g","l","s">>, <<"b","a","r","t","o","l","i","n","i">>, <<"s","d","a">> >>

\* ^name\s+([0-9]+) for fedex, ^name\s+([A-Z0-9]+) for the others, ignoring
\* case: group 1, None when the pattern does not match
CourierGroup(text, name) ==
    LET class == IF name = <<"f","e","d","e","x">>
                 THEN { Digits[i] : i \in 1..10 }
                 ELSE LowerLetters \cup { Digits[i] : i \in 1..10 }
        ws == Len(name) + 1
        g == FirstNotIn(text, ws, WS)
        e == FirstNotIn(text, g, class)
    IN IF StartsWithAt(text, 1, name) /\ g > ws /\ e > g
       THEN SubSeq(text, g, e - 1) ELSE None

\* text.split()[-1], <<>> when the text has no token
LastToken(text) ==
    LET s == RStrip(text)
        starts == { i \in 1..Len(s) : \A j \in i..Len(s) : s[j] \notin WS }
    IN IF s = <<>> THEN <<>>
       ELSE SubSeq(s, CHOOSE i \in starts : \A k \in starts : i <= k, Len(s))

\* the URL the courier's site gives the number; there is none for TNT
GeneratedUrl(courier_name, tracking_number) ==
    CASE courier_name = <<"F","E","D","E","X">> ->
        <<"h","t","t","p","s",":","/","/","w","w","w",".","f","e","d","e","x",".","c","o",
          "m","/","f","e","d","e","x","t","r","a","c","k","/","?","t","r","k","n","b","r",
          "=">>
        \o tracking_number
        \o <<"&","l","o","c","a","l","e","=","i","t","_","I","T">>
      [] courier_name = <<"U","P","S">> ->
        <<"h","t","t","p","s",":","/","/","w","w","w",".","u","p","s",".","c","o","m","/",
          "t","r","a","c","k","?","l","o","c","=","i","t","_","I","T","&","t","r","a","c",
          "k","n","u","m","=">>
        \o tracking_number
      [] courier_name = <<"D","H","L">> ->
        <<"h","t","t","p","s",":","/","/","w","w","w",".","d","h","l",".","c","o","m","/",
          "i","t","-","i","t","/","h","o","m","e","/","t","r","a","c","k","i","n","g","/",
          "t","r","a","c","k","i","n","g","-","e","x","p","r","e","s","s",".","h","t","m",
          "l","?","s","u","b","m","i","t","=","1","&","t","r","a","c","k","i","n","g","-",
          "i","d","=">>
        \o tracking_number
      [] courier_name = <<"G","L","S">> ->
        <<"h","t","t","p","s",":","/","/","g","l","s","-","g","r","o","u","p",".","e","u",
          "/","I","T","/","i","t","/","r","i","c","e","r","c","a","-","p","a","c","c","h",
          "i","?","m","a","t","c","h","=">>
        \o tracking_number
      [] courier_name = <<"B","A","R","T","O","L","I","N","I">> ->
        <<"h","t","t","p","s",":","/","/","v","a","s",".","b","r","t",".","i","t","/","v",
          "a","s","/","s","p","e","d","_","d","e","t","_","s","h","o","w",".","h","s","m",
          "?","b","r","t","_","b","r","t","C","o","d","e","=">>
        \o tracking_number
      [] courier_name = <<"B","R","T">> ->
        <<"h","t","t","p","s",":","/","/","v","a","s",".","b","r","t",".","i","t","/","v",
          "a","s","/","s","p","e","d","_","d","e","t","_","s","h","o","w",".","h","s","m",
          "?","b","r","t","_","b","r","t","C","o","d","e","=">>
        \o tracking_number
      [] courier_name = <<"S","D","A">> ->
        <<"h","t","t","p","s",":","/","/","w","w","w",".","s","d","a",".","i","t","/","w",
          "p","s","/","p","o","r","t","a","l","/","S","e","r","v","i","z","i","_","o","n",
          "l","i","n","e","/","d","e","t","t","a","g","l","i","o","-","s","p","e","d","i",
          "z","i","o","n","e","?","l","o","c","a","l","e","=","i","t","&","t","r","a","c",
          "i","n","g",".","l","e","t","t","e","r","a","V","e","t","t","u","r","a","=">>
        \o tracking_number
      [] OTHER -> None

\* the text the courier is looked for in: the text inside <a>...</a> when there
\* is one, without tags and entities, stripped, in lower case
CleanedText(text, in_tag) ==
    Lower(Strip(RemoveEntitiesFrom(
        RemoveTagsFrom(Strip(IF in_tag = None THEN text ELSE in_tag), 1), 1)))

\* the position in Couriers of the first pattern that matches, 0 when none does
FirstCourier(text) ==
    LET matching == { i \in 1..Len(Couriers) : CourierGroup(text, Couriers[i]) # None }
    IN IF matching = {} THEN 0 ELSE CHOOSE i \in matching : \A j \in matching : i <= j

\* the number after the courier's name; without a courier, the last token of the
\* text when it has a digit
TrackingNumber(text, courier, last) ==
    IF courier # 0 THEN CourierGroup(text, Couriers[courier])
    ELSE IF \E i \in 1..Len(last) : IsDigit(last[i]) THEN last
    ELSE None

\* a faulty variant: the generated URL is preferred to the one of the href
TrackingUrlGeneratedFirst(extracted_url, tracking_number, courier_name, generated) ==
    IF ~Falsy(tracking_number) /\ ~Falsy(courier_name) /\ generated # None
    THEN generated
    ELSE extracted_url

\* the URL of the href when there is one, else the generated one
TrackingUrl(extracted_url, tracking_number, courier_name, generated) ==
    IF ~Falsy(extracted_url) THEN extracted_url
    ELSE IF ~Falsy(tracking_number) /\ ~Falsy(courier_name) /\ generated # None
         THEN generated
         ELSE extracted_url

TrackingInfo(tracking_number, courier_name, extracted_url) ==
    [tracking_number |-> tracking_number,
     courier_name |-> courier_name,
     tracking_url |-> TrackingUrl(extracted_url, tracking_number, courier_name,
                                  GeneratedUrl(courier_name, tracking_number))]

CourierInfo(text, courier, extracted_url) ==
    TrackingInfo(TrackingNumber(text, courier, LastToken(text)),
                 IF courier = 0 THEN None ELSE Upper(Couriers[courier]),
                 extracted_url)

extract_tracking_info(text) ==
    IF Falsy(text) \/ Strip(text) = <<>>
    THEN [tracking_number |-> None, courier_name |-> None, tracking_url |-> None]
    ELSE CourierInfo(CleanedText(text, TagTextGroup(text)),
                     FirstCourier(CleanedText(text, TagTextGroup(text))),
                     IF HrefGroup(text) = None THEN None
                     ELSE RemoveAll(Strip(HrefGroup(text)), WS))

(***************************************************************************)
(* parse-ddt-pdf.py: one iteration of the row loop.  The slots are read at *)
(* the fixed list positions 0, 1, 2, 4, 5 of a list of cycle_size tables:  *)
(* a position past the end of the list raises IndexError.                  *)
(***************************************************************************)
\* tables[k][row_idx] if row_idx < len(tables[k]) else [None] * n
RowOrNones(table, r, n) ==
    IF r < Len(table) THEN table[r + 1] ELSE [i \in 1..n |-> None]

\* row[k] if len(row) > k else None
CellOrNone(row, k) == IF Len(row) > k THEN row[k + 1] ELSE None

ParsedDDT(row1, delivery_date, row2, row3, row5, row6, tracking) ==
    [ id |-> CellOrNone(row1, 1),
      ddt_number |-> CellOrNone(row1, 2),
      delivery_date |-> delivery_date,
      order_number |-> CellOrNone(row1, 4),
      customer_account |-> CellOrNone(row2, 0),
      sales_name |-> CellOrNone(row2, 1),
      delivery_name |-> CellOrNone(row3, 0),
      tracking_number |-> tracking.tracking_number,
      tracking_url |-> tracking.tracking_url,
      tracking_courier |-> tracking.courier_name,
      delivery_terms |-> CellOrNone(row5, 1),
      delivery_method |-> CellOrNone(row6, 0),
      delivery_city |-> CellOrNone(row6, 2) ]

\* row5[0] if len(row5) > 0 and row5[0] else None
tracking_raw(row5) == IF Len(row5) > 0 /\ ~Falsy(row5[1]) THEN row5[1] ELSE None

\* tables[k], and a faulty reading of it: no table when k is past the end
TableOrEmpty(t, k) == IF k < Len(t) THEN t[k + 1] ELSE <<>>

\* a faulty variant: a position past the end of the list raises nothing
ddt_row_any_length(t, r) ==
    LET row1 == RowOrNones(t[1], r, 5)
        ddt_id == CellOrNone(row1, 1)
        ddt_number == CellOrNone(row1, 2)
        delivery_date == IF Len(row1) > 3 THEN parse_italian_date(row1[4]) ELSE None
        order_number == CellOrNone(row1, 4)
    IN
    IF Falsy(ddt_number) \/ Falsy(order_number) THEN Skip
    ELSE IF ddt_id = <<"0">> \/ ddt_number = <<"0">> THEN Skip
    ELSE Yield(ParsedDDT(row1, delivery_date,
                         RowOrNones(TableOrEmpty(t, 1), r, 2),
                         RowOrNones(TableOrEmpty(t, 2), r, 2),
                         RowOrNones(TableOrEmpty(t, 4), r, 2),
                         RowOrNones(TableOrEmpty(t, 5), r, 3),
                         extract_tracking_info(
                             tracking_raw(RowOrNones(TableOrEmpty(t, 4), r, 2)))))

ddt_row(t, r) ==
    LET row1 == RowOrNones(t[1], r, 5)
        ddt_id == CellOrNone(row1, 1)
        ddt_number == CellOrNone(row1, 2)
        delivery_date == IF Len(row1) > 3 THEN parse_italian_date(row1[4]) ELSE None
        order_number == CellOrNone(row1, 4)
    IN
    IF Falsy(ddt_number) \/ Falsy(order_number) THEN Skip
    ELSE IF ddt_id = <<"0">> \/ ddt_number = <<"0">> THEN Skip
    ELSE IF Len(t) < 6 THEN Raise(<<>>)
    ELSE Yield(ParsedDDT(row1, delivery_date,
                         RowOrNones(t[2], r, 2), RowOrNones(t[3], r, 2),
                         RowOrNones(t[5], r, 2), RowOrNones(t[6], r, 3),
                         extract_tracking_info(tracking_raw(RowOrNones(t[5], r, 2)))))

(***************************************************************************)
(* parse-prices-pdf.py: one iteration of the row loop over the three       *)
(* tables of a cycle.                                                      *)
(***************************************************************************)
\* table[row_idx] if row_idx < len(table) else []
RowOrEmpty(table, r) == IF r < Len(table) THEN table[r + 1] ELSE <<>>

prices_row(t, r) ==
    LET row1 == RowOrEmpty(t[1], r)
        row2 == RowOrEmpty(t[2], r)
        row3 == RowOrEmpty(t[3], r)
        id_val == _get_cell(row1, 0)
    IN
    IF Falsy(id_val) \/ Strip(id_val) \in {<<"0">>, <<>>} THEN Skip
    ELSE Yield([
        id |-> id_val,
        codice_conto |-> _get_cell(row1, 1),
        account |-> _get_cell(row1, 2),
        descrizione_account |-> _get_cell(row1, 3),
        item_selection |-> _get_cell(row1, 4),
        item_description |-> _get_cell(row2, 0),
        da_data |-> _get_cell(row2, 1),
        data |-> _get_cell(row2, 2),
        quantita_p2 |-> _get_cell(row2, 3),
        quantita_p3 |-> _get_cell(row3, 0),
        unita_di_prezzo |-> _get_cell(row3, 1),
        importo_unitario |-> _get_cell(row3, 2),
        valuta |-> _get_cell(row3, 3),
        prezzo_netto_brasseler |-> _get_cell(row3, 4) ])

\* min(len(table1), len(table2), len(table3))
Min3(a, b, c) ==
    IF a <= b /\ a <= c THEN a ELSE IF b <= c THEN b ELSE c

(***************************************************************************)
(* The cycle detector (parse-ddt-pdf.py, parse-prices-pdf.py).             *)
(***************************************************************************)
DetectingParsers == {"ddt", "prices"}

OrEmpty(h) == IF h = None THEN <<>> ELSE h

\* ddt: some header of the first row contains 'DDT'
ddt_is_anchor(table) ==
    /\ table # <<>>
    /\ \E i \in 1..Len(table[1]) :
           Contains(Upper(Strip(OrEmpty(table[1][i]))), <<"D","D","T">>)

\* prices: the header of the first column is 'ID'
prices_is_anchor(table) ==
    /\ table # <<>>
    /\ Len(table[1]) > 0
    /\ Upper(Strip(OrEmpty(table[1][1]))) = <<"I","D">>

IsAnchor(p, table) ==
    CASE p = "ddt" -> ddt_is_anchor(table)
      [] p = "prices" -> prices_is_anchor(table)

\* a faulty variant: the page of the second anchor instead of the distance
DetectedSizeNoSubtraction(a) == a[2]

\* detected = anchor_pages[1] - anchor_pages[0]
DetectedSize(a) == a[2] - a[1]

\* a faulty variant: the two outcomes exchanged
DetectionStatusSwapped(detected, expected) ==
    IF detected = expected THEN "CHANGED" ELSE "OK"

DetectionStatus(detected, expected) ==
    IF detected = expected THEN "OK" ELSE "CHANGED"

CycleSizeWarning(p, detected, expected, status) ==
    [kind |-> "CYCLE_SIZE_WARNING", parser |-> p, detected |-> detected,
     expected |-> expected, status |-> status]

DetectedLine(n) == [kind |-> "Detected cycle size", pages |-> n]

(***************************************************************************)
(* The streaming driver.                                                   *)
(***************************************************************************)
GeneratorParsers == {"orders", "invoices", "ddt"}

parse_row(p, t, r) ==
    CASE p = "orders" -> orders_row(t, r)
      [] p = "invoices" -> invoices_row(t, r)
      [] p = "ddt" -> ddt_row(t, r)
      [] p = "prices" -> prices_row(t, r)

\* a faulty variant: the row loop stops one row early
NumRowsOneLess(p, t) ==
    CASE p \in GeneratorParsers -> Len(t[1]) - 1
      [] p = "prices" -> Min3(Len(t[1]), Len(t[2]), Len(t[3])) - 1

\* the rows the loop visits are the Python indices 1 .. NumRows - 1
NumRows(p, t) ==
    CASE p \in GeneratorParsers -> Len(t[1])
      [] p = "prices" -> Min3(Len(t[1]), Len(t[2]), Len(t[3]))

cycle_start == cycle_idx * cycle_size

\* prices: num_cycles = total_pages // self.PAGES_PER_CYCLE
num_cycles == total_pages \div cycle_size

\* the 0-based indices of the pages the extraction loop visits for the cycle
WindowPages == { i \in cycle_start..(cycle_start + cycle_size - 1) : i < total_pages }

\* the first page of the window whose extraction raises, -1 when none does
FirstRaising ==
    IF \E i \in WindowPages : pdf[i + 1].raises
    THEN CHOOSE i \in WindowPages :
            pdf[i + 1].raises /\ \A j \in WindowPages : pdf[j + 1].raises => i <= j
    ELSE -1

Extracted == [i \in 1..Cardinality(WindowPages) |-> pdf[cycle_start + i].table]

\* prices: the three pages page_1_idx, page_2_idx, page_3_idx of the cycle
PricesPages == { cycle_start, cycle_start + 1, cycle_start + 2 }

\* pdf.pages[i] past the end raises IndexError, extract_table() may raise
PricesExtractionRaises ==
    \E i \in PricesPages : i >= Len(pdf) \/ pdf[i + 1].raises

\* the first of the three indices at which pdf.pages[i].extract_table() fails
PricesFirstFailing ==
    CHOOSE i \in PricesPages :
        /\ i >= Len(pdf) \/ pdf[i + 1].raises
        /\ \A j \in PricesPages : (j >= Len(pdf) \/ pdf[j + 1].raises) => i <= j

\* documents whose anchor header comes back after another number of pages than
\* the expected one (a cycle without its last page, a cycle with one page
\* more), and a document with one page before its first cycle
ResizedDocuments(p) ==
    IF p \in DetectingParsers
    THEN { SubSeq(CyclePages(p, [kinds |-> k, mode |-> "full", which |-> 0]),
                  1, Layout(p) - 1)
               \o SubSeq(CyclePages(p, PlainShape), 1, Layout(p) - 1) : k \in KindSeqs(p) }
         \cup
         { CyclePages(p, PlainShape) \o <<Page(<<Header(p, 2)>>)>>
               \o CyclePages(p, PlainShape) \o <<Page(<<Header(p, 2)>>)>>,
           <<Page(<<Header(p, 2)>>)>> \o PlainCycles(p, MaxCycles) }
    ELSE {}

StartState ==
    /\ cycle_size = IF parser = "ddt" THEN 0 ELSE Layout(parser)
    /\ total_pages = 0
    /\ cycle_idx = 0
    /\ tables = <<>>
    /\ row_idx = 0
    /\ prices = <<>>
    /\ out = <<>>
    /\ err = <<>>
    /\ exit_code = -1
    /\ page_idx = 0
    /\ anchor_pages = <<>>
    /\ handles = 0
    /\ peak_handles = 0
    /\ tracking_info = <<>>
    /\ field_result = <<>>
    /\ requested = [cycle |-> -1, pages |-> {}]
    /\ all_tables = <<>>
    /\ products = <<>>
    /\ all_pages_lines = <<>>
    /\ customers = <<>>

\* the script is started with the path of a document of the family, with the
\* path of a file that cannot be opened, or without a path
Init ==
    /\ parser \in Parsers
    /\ \/ argc = 2 /\ readable = TRUE /\ pdf \in Documents(parser) \cup ResizedDocuments(parser)
       \/ argc \in {1, 2} /\ readable = FALSE /\ pdf = <<>>
    /\ pc = "main"
    /\ tracking_text = None
    /\ NoFieldCall
    /\ StartState

\* peak_handles once n handles are open
PeakWith(n) == IF n > peak_handles THEN n ELSE peak_handles

\* a faulty variant: the handle of a cycle that is skipped stays open
HandlesAfterSkipLeaked(h) == h + 1

\* prices: `continue` inside `with pdfplumber.open(...)` leaves the block, which
\* closes the handle the cycle opened
HandlesAfterSkip(h) == h

\* main(): without a path the usage line and sys.exit(1); with one, the parser
\* is called (ddt and prices start with the cycle detector)
Main ==
    /\ pc = "main"
    /\ IF argc < 2
       THEN /\ err' = Append(err, [kind |-> "Usage"])
            /\ exit_code' = 1
            /\ pc' = "failed"
       ELSE /\ pc' = IF parser \in DetectingParsers THEN "scan" ELSE "open"
            /\ UNCHANGED <<err, exit_code>>
    /\ UNCHANGED <<input, requested, tracking_info, field_result, batch, cycle_size, total_pages, cycle_idx, tables, row_idx, prices, out,
                   page_idx, anchor_pages, handles, peak_handles>>

\* _detect_cycle_size: `with pdfplumber.open(pdf_path) as pdf`; a file that cannot
\* be opened raises, which main() reports before it exits with 1
DetectOpen ==
    /\ pc = "scan"
    /\ IF readable
       THEN /\ handles' = handles + 1
            /\ peak_handles' = PeakWith(handles + 1)
            /\ pc' = "detect"
            /\ UNCHANGED <<err, exit_code>>
       ELSE /\ err' = Append(err, [kind |-> "Error"])
            /\ exit_code' = 1
            /\ pc' = "failed"
            /\ UNCHANGED <<handles, peak_handles>>
    /\ UNCHANGED <<input, requested, tracking_info, field_result, batch, cycle_size, total_pages, cycle_idx, tables, row_idx, prices, out,
                   page_idx, anchor_pages>>

\* one iteration of `for page_idx, page in enumerate(pdf.pages)` of the detector;
\* an exception of the extraction is caught nowhere below main(): it leaves the
\* `with` block, which closes the handle
DetectPage ==
    /\ pc = "detect"
    /\ page_idx < Len(pdf)
    /\ Len(anchor_pages) < 2
    /\ IF pdf[page_idx + 1].raises
       THEN /\ err' = Append(err, [kind |-> "Error"])
            /\ exit_code' = 1
            /\ pc' = "done"
            /\ handles' = handles - 1
            /\ UNCHANGED <<anchor_pages, page_idx>>
       ELSE /\ anchor_pages' = IF IsAnchor(parser, pdf[page_idx + 1].table)
                               THEN Append(anchor_pages, page_idx)
                               ELSE anchor_pages
            /\ page_idx' = page_idx + 1
            /\ UNCHANGED <<err, exit_code, pc, handles>>
    /\ UNCHANGED <<input, requested, tracking_info, field_result, batch, cycle_size, total_pages, cycle_idx, tables, row_idx, prices, out,
                   peak_handles>>

\* the scan is over: the `with` block is left, then the warning line, the return
\* value, and the caller's "Detected cycle size" line
DetectReturn ==
    /\ pc = "detect"
    /\ page_idx >= Len(pdf) \/ Len(anchor_pages) >= 2
    /\ LET expected == Layout(parser)
           detected == IF Len(anchor_pages) >= 2 THEN DetectedSize(anchor_pages) ELSE expected
           status == IF Len(anchor_pages) >= 2
                     THEN DetectionStatus(detected, expected)
                     ELSE "DETECTION_FAILED"
       IN /\ cycle_size' = detected
          /\ err' = err \o << CycleSizeWarning(parser, detected, expected, status),
                              DetectedLine(detected) >>
    /\ handles' = handles - 1
    /\ pc' = "open"
    /\ UNCHANGED <<input, requested, tracking_info, field_result, batch, total_pages, cycle_idx, tables, row_idx, prices, out, exit_code,
                   page_idx, anchor_pages, peak_handles>>

\* with pdfplumber.open(pdf_path) as pdf: total_pages = len(pdf.pages).  The
\* generators keep this handle for the whole run; prices leaves the block at
\* once and opens the document again for every cycle
OpenPdf ==
    /\ pc = "open"
    /\ IF readable
       THEN /\ total_pages' = Len(pdf)
            /\ cycle_idx' = 0
            /\ handles' = IF parser = "prices" THEN handles ELSE handles + 1
            /\ peak_handles' = PeakWith(handles + 1)
            /\ pc' = "extract"
            /\ UNCHANGED <<err, exit_code>>
       ELSE /\ err' = Append(err, [kind |-> "Error"])
            /\ exit_code' = 1
            /\ pc' = "failed"
            /\ UNCHANGED <<total_pages, cycle_idx, handles, peak_handles>>
    /\ UNCHANGED <<input, requested, tracking_info, field_result, batch, cycle_size, tables, row_idx, prices, out, page_idx, anchor_pages>>

\* one iteration of `for cycle_start in range(0, total_pages, cycle_size)` up to
\* the row loop: the tables of the window, the completeness test, the anchor test.
\* An exception of extract_tables() is caught nowhere in the generator: it
\* reaches main(), which prints it and exits with 1.  The generator's `with`
\* block is left, and the handle closed, by that exception and by the `break`.
ExtractCycle ==
    /\ pc = "extract"
    /\ parser \in GeneratorParsers
    /\ cycle_start < total_pages
    /\ IF FirstRaising # -1
       THEN /\ tables' = SubSeq(Extracted, 1, FirstRaising - cycle_start)
            /\ err' = Append(err, [kind |-> "Error"])
            /\ exit_code' = 1
            /\ pc' = "done"
            /\ handles' = handles - 1
            /\ UNCHANGED <<cycle_idx, row_idx>>
       ELSE /\ tables' = Extracted
            /\ err' = err
            /\ IF Len(Extracted) < cycle_size
               THEN /\ pc' = "done"
                    /\ exit_code' = 0
                    /\ handles' = handles - 1
                    /\ UNCHANGED <<cycle_idx, row_idx>>
               ELSE IF Extracted[1] = <<>> \/ Len(Extracted[1]) <= 1
               THEN /\ pc' = "extract"
                    /\ cycle_idx' = cycle_idx + 1
                    /\ UNCHANGED <<exit_code, row_idx, handles>>
               ELSE /\ pc' = "rows"
                    /\ row_idx' = 1
                    /\ UNCHANGED <<exit_code, cycle_idx, handles>>
    /\ requested' = [cycle |-> cycle_idx,
                     pages |-> IF FirstRaising # -1
                               THEN cycle_start..FirstRaising ELSE WindowPages]
    /\ UNCHANGED <<input, tracking_info, field_result, batch, cycle_size, total_pages, prices, out, page_idx, anchor_pages,
                   peak_handles>>

\* prices: one iteration of `for cycle_idx in range(num_cycles)` up to the row
\* loop: the document is opened again, the three tables are extracted inside a
\* try, a missing table skips the cycle with a warning
PricesExtractCycle ==
    /\ pc = "extract"
    /\ parser = "prices"
    /\ cycle_idx < num_cycles
    /\ peak_handles' = PeakWith(handles + 1)
    /\ IF PricesExtractionRaises
       THEN /\ err' = Append(err, [kind |-> "Warning: Failed to extract tables",
                                   cycle |-> cycle_idx])
            /\ cycle_idx' = cycle_idx + 1
            /\ handles' = HandlesAfterSkip(handles)
            /\ UNCHANGED <<tables, row_idx, pc>>
       ELSE LET t == [i \in 1..3 |-> pdf[cycle_start + i].table] IN
            /\ tables' = t
            /\ IF t[1] = <<>> \/ t[2] = <<>> \/ t[3] = <<>>
               THEN /\ err' = Append(err, [kind |-> "Warning: Missing tables",
                                           cycle |-> cycle_idx])
                    /\ cycle_idx' = cycle_idx + 1
                    /\ handles' = HandlesAfterSkip(handles)
                    /\ UNCHANGED <<row_idx, pc>>
               ELSE /\ row_idx' = 1
                    /\ pc' = "rows"
                    /\ handles' = handles + 1
                    /\ UNCHANGED <<err, cycle_idx>>
    /\ requested' = [cycle |-> cycle_idx,
                     pages |-> IF PricesExtractionRaises
                               THEN cycle_start..PricesFirstFailing ELSE PricesPages]
    /\ UNCHANGED <<input, tracking_info, field_result, batch, cycle_size, total_pages, prices, out, exit_code, page_idx,
                   anchor_pages>>

\* one iteration of `for row_idx in range(1, num_rows)`: the record is yielded
\* (prices: appended to the list), the row is skipped, or the exception is caught
\* and logged with its coordinates (prices logs cycle_idx, the others cycle_start)
ProcessRow ==
    /\ pc = "rows"
    /\ row_idx < NumRows(parser, tables)
    /\ LET res == parse_row(parser, tables, row_idx)
           where == IF parser = "prices" THEN cycle_idx ELSE cycle_start
       IN
        /\ out' = IF res.outcome = "yield" /\ parser # "prices"
                  THEN Append(out, res.record) ELSE out
        /\ prices' = IF res.outcome = "yield" /\ parser = "prices"
                     THEN Append(prices, res.record) ELSE prices
        /\ err' = IF res.outcome = "raise"
                  THEN err \o res.printed \o <<Warning(where, row_idx)>>
                  ELSE err
    /\ row_idx' = row_idx + 1
    /\ UNCHANGED <<input, requested, tracking_info, field_result, batch, pc, cycle_size, total_pages, cycle_idx, tables, exit_code,
                   page_idx, anchor_pages, handles, peak_handles>>

\* the row loop is over: the generators drop the tables (tables = None), prices
\* leaves the `with` block of the cycle; next cycle
EndCycle ==
    /\ pc = "rows"
    /\ row_idx >= NumRows(parser, tables)
    /\ tables' = IF parser = "prices" THEN tables ELSE <<>>
    /\ handles' = IF parser = "prices" THEN handles - 1 ELSE handles
    /\ cycle_idx' = cycle_idx + 1
    /\ pc' = "extract"
    /\ UNCHANGED <<input, requested, tracking_info, field_result, batch, cycle_size, total_pages, row_idx, prices, out, err, exit_code,
                   page_idx, anchor_pages, peak_handles>>

\* range(0, total_pages, cycle_size) is exhausted: the generator leaves its
\* `with` block and returns, and main() ends normally
Finish ==
    /\ pc = "extract"
    /\ parser \in GeneratorParsers
    /\ cycle_start >= total_pages
    /\ handles' = handles - 1
    /\ pc' = "done"
    /\ exit_code' = 0
    /\ UNCHANGED <<input, requested, tracking_info, field_result, batch, cycle_size, total_pages, cycle_idx, tables, row_idx, prices, out,
                   err, page_idx, anchor_pages, peak_handles>>

\* prices: parse() returns the list and main() prints it as one JSON array
PricesFinish ==
    /\ pc = "extract"
    /\ parser = "prices"
    /\ cycle_idx >= num_cycles
    /\ out' = prices
    /\ pc' = "done"
    /\ exit_code' = 0
    /\ UNCHANGED <<input, requested, tracking_info, field_result, batch, cycle_size, total_pages, cycle_idx, tables, row_idx, prices, err,
                   page_idx, anchor_pages, handles, peak_handles>>

Next ==
    \/ Main
    \/ DetectOpen
    \/ DetectPage
    \/ DetectReturn
    \/ OpenPdf
    \/ ExtractCycle
    \/ PricesExtractCycle
    \/ ProcessRow
    \/ EndCycle
    \/ Finish
    \/ PricesFinish

Spec == Init /\ [][Next]_vars

(***************************************************************************)
(* parse-products-pdf.py.  The parser reads the tables of all the pages,   *)
(* then goes through them in cycles of eight; the columns are read by      *)
(* position.                                                               *)
(***************************************************************************)
\* (row[k] or '').strip() if len(row) > k else ''
StripOrEmpty(row, k) == IF Len(row) > k THEN Strip(OrEmpty(row[k + 1])) ELSE <<>>

\* (row[k] or '').strip() if len(row) > k else None, then '' cleaned to None
StripOrNone(row, k) ==
    IF Len(row) > k /\ Strip(OrEmpty(row[k + 1])) # <<>>
    THEN Strip(OrEmpty(row[k + 1]))
    ELSE None

_parse_page_1(row) ==
    [ id_articolo |-> StripOrEmpty(row, 0),
      nome_articolo |-> StripOrEmpty(row, 1),
      descrizione |-> StripOrNone(row, 2) ]

_parse_page_2(row) ==
    [ gruppo_articolo |-> StripOrNone(row, 0),
      contenuto_imballaggio |-> StripOrNone(row, 1),
      nome_ricerca |-> StripOrNone(row, 2) ]

_parse_page_3(row) ==
    [ unita_prezzo |-> StripOrNone(row, 0),
      id_gruppo_prodotti |-> StripOrNone(row, 1),
      descrizione_gruppo_articolo |-> StripOrNone(row, 2),
      qta_minima |-> StripOrNone(row, 3) ]

_parse_page_4(row) ==
    [ qta_multipli |-> StripOrNone(row, 0),
      qta_massima |-> StripOrNone(row, 1),
      figura |-> StripOrNone(row, 2),
      id_blocco_articolo |-> StripOrNone(row, 3),
      pacco_gamba |-> StripOrNone(row, 4) ]

_parse_page_5(row) ==
    [ grandezza |-> StripOrNone(row, 0),
      id_configurazione |-> StripOrNone(row, 1),
      creato_da |-> StripOrNone(row, 2),
      data_creata |-> StripOrNone(row, 3),
      dataareaid |-> StripOrNone(row, 4) ]

_parse_page_6(row) ==
    [ qta_predefinita |-> StripOrNone(row, 0),
      visualizza_numero_prodotto |-> StripOrNone(row, 1),
      sconto_assoluto_totale |-> StripOrNone(row, 2),
      id_prodotto |-> StripOrNone(row, 3) ]

_parse_page_7(row) ==
    [ sconto_linea |-> StripOrNone(row, 0),
      modificato_da |-> StripOrNone(row, 1),
      datetime_modificato |-> StripOrNone(row, 2),
      articolo_ordinabile |-> StripOrNone(row, 3) ]

_parse_page_8(row) ==
    [ purch_price |-> StripOrNone(row, 0),
      pcs_id_configurazione_standard |-> StripOrNone(row, 1),
      qta_standard |-> StripOrNone(row, 2),
      fermato |-> StripOrNone(row, 3),
      id_unita |-> StripOrNone(row, 4) ]

\* all_tables[i][1:] if len(all_tables[i]) > 1 else []
PageData(table) == IF Len(table) > 1 THEN Tail(table) ELSE <<>>

\* max(len(page0_data), ..., len(page7_data))
RECURSIVE MaxLen(_)
MaxLen(t) ==
    IF t = <<>> THEN 0
    ELSE IF Len(Head(t)) >= MaxLen(Tail(t)) THEN Len(Head(t)) ELSE MaxLen(Tail(t))

\* the product of row r of the eight lists of data rows
ParsedProduct(t, r) ==
    _parse_page_1(RowOrEmpty(t[1], r)) @@ _parse_page_2(RowOrEmpty(t[2], r))
        @@ _parse_page_3(RowOrEmpty(t[3], r)) @@ _parse_page_4(RowOrEmpty(t[4], r))
        @@ _parse_page_5(RowOrEmpty(t[5], r)) @@ _parse_page_6(RowOrEmpty(t[6], r))
        @@ _parse_page_7(RowOrEmpty(t[7], r)) @@ _parse_page_8(RowOrEmpty(t[8], r))

\* the filter of garbage records and of the footer row
products_keep(product) ==
    /\ ~Falsy(product.id_articolo)
    /\ Strip(product.id_articolo) # <<>>
    /\ Strip(product.id_articolo) # <<"0">>
    /\ ~StartsWithAt(product.id_articolo, 1, <<"C","o","u","n","t","=">>)

\* what main() prints on stdout when something goes wrong
ErrorObject == [error |-> "error"]

\* cycles = num_pages // self.PAGES_PER_CYCLE
products_cycles == Len(all_tables) \div PRODUCTS_PAGES_PER_CYCLE

\* main(): without a path, or with the path of a file that does not exist or is
\* no PDF, a JSON object with the error is printed on stdout, then sys.exit(1)
ProductsMain ==
    /\ pc = "main"
    /\ IF argc < 2 \/ ~readable
       THEN /\ out' = Append(out, ErrorObject)
            /\ exit_code' = 1
            /\ pc' = "failed"
       ELSE /\ pc' = "open"
            /\ UNCHANGED <<out, exit_code>>
    /\ UNCHANGED <<input, requested, tracking_info, field_result, batch, cycle_size, total_pages, cycle_idx, tables, row_idx, prices,
                   err, page_idx, anchor_pages, handles, peak_handles>>

\* parse(): with pdfplumber.open(self.pdf_path) as pdf: total_pages = len(pdf.pages)
ProductsOpen ==
    /\ pc = "open"
    /\ total_pages' = Len(pdf)
    /\ page_idx' = 0
    /\ handles' = handles + 1
    /\ peak_handles' = PeakWith(handles + 1)
    /\ pc' = "read"
    /\ UNCHANGED <<input, requested, tracking_info, field_result, batch, cycle_size, cycle_idx, tables, row_idx, prices, out, err,
                   exit_code, anchor_pages>>

\* one iteration of `for page_num in range(total_pages)`: the first table of the
\* page, or [], is appended to all_tables; an exception of extract_tables() leaves
\* the `with` block and reaches main(), which prints it on stdout and exits with 1
ProductsReadPage ==
    /\ pc = "read"
    /\ page_idx < total_pages
    /\ IF pdf[page_idx + 1].raises
       THEN /\ out' = Append(out, ErrorObject)
            /\ exit_code' = 1
            /\ pc' = "done"
            /\ handles' = handles - 1
            /\ UNCHANGED <<all_tables, page_idx>>
       ELSE /\ all_tables' = Append(all_tables, pdf[page_idx + 1].table)
            /\ page_idx' = page_idx + 1
            /\ UNCHANGED <<out, exit_code, pc, handles>>
    /\ UNCHANGED <<input, requested, tracking_info, field_result, products, all_pages_lines, customers, cycle_size, total_pages,
                   cycle_idx, tables, row_idx, prices, err, anchor_pages, peak_handles>>

\* all the pages are read: the `with` block is left and _parse_cyclic_tables
\* is called with all_tables
ProductsParse ==
    /\ pc = "read"
    /\ page_idx >= total_pages
    /\ handles' = handles - 1
    /\ cycle_idx' = 0
    /\ pc' = "cycle"
    /\ UNCHANGED <<input, requested, tracking_info, field_result, batch, cycle_size, total_pages, tables, row_idx, prices, out, err,
                   exit_code, page_idx, anchor_pages, peak_handles>>

\* one iteration of `for cycle in range(cycles)` up to the row loop: the data
\* rows of the eight tables of the cycle (tables holds page0_data .. page7_data)
ProductsCycle ==
    /\ pc = "cycle"
    /\ cycle_idx < products_cycles
    /\ tables' = [s \in 1..PRODUCTS_PAGES_PER_CYCLE |->
                     PageData(all_tables[cycle_idx * PRODUCTS_PAGES_PER_CYCLE + s])]
    /\ row_idx' = 0
    /\ pc' = "rows"
    /\ UNCHANGED <<input, requested, tracking_info, field_result, batch, cycle_size, total_pages, cycle_idx, prices, out, err,
                   exit_code, page_idx, anchor_pages, handles, peak_handles>>

\* one iteration of `for row_idx in range(max_rows)`: the product is built and
\* appended to the list unless the filter rejects it
ProductsParseRow ==
    /\ pc = "rows"
    /\ row_idx < MaxLen(tables)
    /\ products' = IF products_keep(ParsedProduct(tables, row_idx))
                   THEN Append(products, ParsedProduct(tables, row_idx))
                   ELSE products
    /\ row_idx' = row_idx + 1
    /\ UNCHANGED <<input, requested, tracking_info, field_result, all_tables, all_pages_lines, customers, pc, cycle_size,
                   total_pages, cycle_idx, tables, prices, out, err, exit_code, page_idx,
                   anchor_pages, handles, peak_handles>>

ProductsEndCycle ==
    /\ pc = "rows"
    /\ row_idx >= MaxLen(tables)
    /\ cycle_idx' = cycle_idx + 1
    /\ pc' = "cycle"
    /\ UNCHANGED <<input, requested, tracking_info, field_result, batch, cycle_size, total_pages, tables, row_idx, prices, out, err,
                   exit_code, page_idx, anchor_pages, handles, peak_handles>>

\* the list is returned and main() prints it on stdout as one JSON array
ProductsFinish ==
    /\ pc = "cycle"
    /\ cycle_idx >= products_cycles
    /\ out' = out \o products
    /\ exit_code' = 0
    /\ pc' = "done"
    /\ UNCHANGED <<input, requested, tracking_info, field_result, batch, cycle_size, total_pages, cycle_idx, tables, row_idx, prices,
                   err, page_idx, anchor_pages, handles, peak_handles>>

InitProducts ==
    /\ parser = "products"
    /\ \/ argc = 2 /\ readable = TRUE /\ pdf \in Documents("products")
       \/ argc \in {1, 2} /\ readable = FALSE /\ pdf = <<>>
    /\ pc = "main"
    /\ tracking_text = None
    /\ NoFieldCall
    /\ StartState

NextProducts ==
    \/ ProductsMain
    \/ ProductsOpen
    \/ ProductsReadPage
    \/ ProductsParse
    \/ ProductsCycle
    \/ ProductsParseRow
    \/ ProductsEndCycle
    \/ ProductsFinish

SpecProducts == InitProducts /\ [][NextProducts]_vars

(***************************************************************************)
(* parse-clienti-pdf.py.  CustomerPDFParser reads the text of all the      *)
(* pages, line by line, then goes through the pages in cycles of eight.    *)
(* A page of the document is its text and whether extract_text() raises.   *)
(* Of the record, the fields of the first and of the last page of a cycle  *)
(* are kept; the parsers of the six pages in between give one row for      *)
(* every data line, and the filter does not look at their fields.          *)
(***************************************************************************)
\* the leading characters of s up to the first blank
RECURSIVE TakeWord(_)
TakeWord(s) ==
    IF s = <<>> \/ Head(s) \in WS THEN <<>> ELSE <<Head(s)>> \o TakeWord(Tail(s))

\* Python s.split(): the pieces of s between runs of blanks, none of them empty
RECURSIVE Words(_)
Words(s) ==
    IF LStrip(s) = <<>> THEN <<>>
    ELSE <<TakeWord(LStrip(s))>>
            \o Words(SubSeq(LStrip(s), Len(TakeWord(LStrip(s))) + 1, Len(LStrip(s))))

\* Python sep.join(parts)
RECURSIVE JoinWith(_, _)
JoinWith(parts, sep) ==
    IF parts = <<>> THEN <<>>
    ELSE IF Len(parts) = 1 THEN parts[1]
    ELSE parts[1] \o sep \o JoinWith(Tail(parts), sep)

\* re.match(r'^\d{11}$', part)
IsVatNumber(part) == Len(part) = 11 /\ \A i \in 1..11 : IsDigit(part[i])

\* [line.strip() for line in page_text.split('\n') if line.strip()]
PageLines(page_text) ==
    LET raw == SplitOn(page_text, "\n")
    IN  [i \in 1..Len(SelectSeq(raw, LAMBDA l : Strip(l) # <<>>)) |->
            Strip(SelectSeq(raw, LAMBDA l : Strip(l) # <<>>)[i])]

\* lines[1:] if lines else []
DataLines(lines) == IF lines # <<>> THEN Tail(lines) ELSE <<>>

\* the dictionary _parse_ids_page builds from the parts of one line
IdsRow(parts) ==
    LET name_parts == Tail(parts)
        has_vat == name_parts # <<>> /\ IsVatNumber(name_parts[Len(name_parts)])
        kept == IF has_vat THEN SubSeq(name_parts, 1, Len(name_parts) - 1) ELSE name_parts
    IN  [ customer_profile |-> parts[1],
          name |-> IF kept # <<>> THEN JoinWith(kept, <<" ">>) ELSE <<>>,
          vat_number |-> IF has_vat THEN name_parts[Len(name_parts)] ELSE None ]

RECURSIVE IdsRows(_)
IdsRows(data_lines) ==
    IF data_lines = <<>> THEN <<>>
    ELSE IF Words(Head(data_lines)) = <<>> THEN IdsRows(Tail(data_lines))
    ELSE <<IdsRow(Words(Head(data_lines)))>> \o IdsRows(Tail(data_lines))

_parse_ids_page(lines) == IdsRows(DataLines(lines))

\* line.strip() if line.strip() else None, for every data line
_parse_internal_account_page(lines) ==
    [i \in 1..Len(DataLines(lines)) |->
        [our_account_number |->
            IF Strip(DataLines(lines)[i]) # <<>> THEN Strip(DataLines(lines)[i]) ELSE None]]

\* _parse_fiscal_page, _parse_address_page, _parse_contact_page,
\* _parse_order_analytics_page, _parse_sales_analytics_page and
\* _parse_business_info_page: one dictionary for every data line
RowPerLine(lines) == [i \in 1..Len(DataLines(lines)) |-> [line |-> DataLines(lines)[i]]]

\* the eight lists of rows of the cycle that starts at page base_idx
CycleRows(pages_lines, base_idx) ==
    [s \in 1..8 |->
        CASE s = 1 -> _parse_ids_page(pages_lines[base_idx + 1])
          [] s = 8 -> _parse_internal_account_page(pages_lines[base_idx + 8])
          [] OTHER -> RowPerLine(pages_lines[base_idx + s])]

\* ParsedCustomer(customer_profile=ids.get('customer_profile', ''), ...) of row r
ParsedCustomer(rows, r) ==
    [ customer_profile |-> IF r < Len(rows[1]) THEN rows[1][r + 1].customer_profile ELSE <<>>,
      name |-> IF r < Len(rows[1]) THEN rows[1][r + 1].name ELSE <<>>,
      vat_number |-> IF r < Len(rows[1]) THEN rows[1][r + 1].vat_number ELSE None,
      our_account_number |->
          IF r < Len(rows[8]) THEN rows[8][r + 1].our_account_number ELSE None ]

\* if customer.customer_profile and customer.customer_profile != "0"
customers_keep(customer) ==
    ~Falsy(customer.customer_profile) /\ customer.customer_profile # <<"0">>

\* the customers export of the model: the lines of the first page of a cycle
\* are drawn from these kinds, the other pages carry one short line per row
C_ID == <<"7","1">>

C_VAT == <<"0","8","2","4","6","1","3","1","2","1","6">>

C_HEADER == <<"I","D"," ","N","O","M","E">>

ClientiLineKinds == {"valid", "noVat", "idOnly", "idVat", "zero", "blank"}

ClientiLine(kind) ==
    CASE kind = "valid" -> C_ID \o <<" ">> \o T_A \o <<" ">> \o T_B \o <<" ">> \o C_VAT
      [] kind = "noVat" -> <<" ">> \o C_ID \o <<" ">> \o T_A \o <<" ", " ">> \o T_B
      [] kind = "idOnly" -> C_ID
      [] kind = "idVat" -> C_ID \o <<" ">> \o C_VAT
      [] kind = "zero" -> T_ZERO \o <<" ">> \o T_A
      [] kind = "blank" -> T_BLANK

\* the text of a page: the header line, then the given lines
PageText(lines) == JoinWith(<<C_HEADER>> \o lines, <<"\n">>)

\* a cycle of eight pages: the lines of the first page by their kinds, n lines
\* on each of the other pages; extract_text() of page `bad` raises (0: of none)
ClientiCyclePages(kinds, n, bad) ==
    [s \in 1..8 |->
        [ text |-> IF s = 1
                   THEN PageText([i \in 1..Len(kinds) |-> ClientiLine(kinds[i])])
                   ELSE PageText([i \in 1..n |-> T_A]),
          raises |-> s = bad ]]

\* a cycle whose first page has no text at all
ClientiEmptyFirstPage ==
    [s \in 1..8 |-> [ text |-> IF s = 1 THEN <<>> ELSE PageText(<<T_A>>),
                      raises |-> FALSE ]]

ClientiPlainCycle == ClientiCyclePages(<<"valid">>, 1, 0)

RECURSIVE ClientiPlainCycles(_)
ClientiPlainCycles(n) ==
    IF n = 0 THEN <<>> ELSE ClientiPlainCycle \o ClientiPlainCycles(n - 1)

ClientiShapes ==
    { ClientiCyclePages(kinds, n, 0) :
        kinds \in UNION { [1..k -> ClientiLineKinds] : k \in 0..MaxRows },
        n \in 0..MaxRows }
    \cup { ClientiCyclePages(<<"valid">>, 1, 3), ClientiEmptyFirstPage }

ClientiDocuments ==
    { ClientiPlainCycles(x[2]) \o x[1] \o ClientiPlainCycles(x[3]) :
        x \in { y \in ClientiShapes \X (0..(MaxCycles - 1)) \X (0..(MaxCycles - 1)) :
                   y[2] + y[3] < MaxCycles } }
    \cup { ClientiPlainCycles(n) \o SubSeq(ClientiPlainCycle, 1, t) :
             n \in 0..(MaxCycles - 1), t \in 0..MaxTail }

\* CustomerPDFParser(pdf_path): FileNotFoundError when the path does not exist;
\* parse(): open(self.pdf_path, 'rb'), PyPDF2.PdfReader(f), len(reader.pages)
ClientiOpen ==
    /\ pc = "main"
    /\ IF readable
       THEN /\ total_pages' = Len(pdf)
            /\ page_idx' = 0
            /\ handles' = handles + 1
            /\ peak_handles' = PeakWith(handles + 1)
            /\ pc' = "read"
       ELSE /\ pc' = "raised"
            /\ UNCHANGED <<total_pages, page_idx, handles, peak_handles>>
    /\ UNCHANGED <<input, requested, tracking_info, field_result, batch, cycle_size, cycle_idx, tables, row_idx, prices, out, err,
                   exit_code, anchor_pages>>

\* one iteration of `for page_num in range(total_pages)`: the lines of the page
\* are appended; an exception of extract_text() leaves the `with` block and parse()
ClientiReadPage ==
    /\ pc = "read"
    /\ page_idx < total_pages
    /\ IF pdf[page_idx + 1].raises
       THEN /\ pc' = "raised"
            /\ handles' = handles - 1
            /\ UNCHANGED <<all_pages_lines, page_idx>>
       ELSE /\ all_pages_lines' = Append(all_pages_lines, PageLines(pdf[page_idx + 1].text))
            /\ page_idx' = page_idx + 1
            /\ UNCHANGED <<pc, handles>>
    /\ UNCHANGED <<input, requested, tracking_info, field_result, all_tables, products, customers, cycle_size, total_pages,
                   cycle_idx, tables, row_idx, prices, out, err, exit_code, anchor_pages,
                   peak_handles>>

\* the file is closed and _parse_cyclic_pages is called with all_pages_lines
ClientiParse ==
    /\ pc = "read"
    /\ page_idx >= total_pages
    /\ handles' = handles - 1
    /\ cycle_idx' = 0
    /\ pc' = "cycle"
    /\ UNCHANGED <<input, requested, tracking_info, field_result, batch, cycle_size, total_pages, tables, row_idx, prices, out, err,
                   exit_code, page_idx, anchor_pages, peak_handles>>

\* cycles = num_pages // 8
clienti_cycles == Len(all_pages_lines) \div CLIENTI_CYCLE

\* one iteration of `for cycle in range(cycles)` up to the row loop: the eight
\* pages of the cycle are parsed (tables holds ids_data .. internal_account)
ClientiCycle ==
    /\ pc = "cycle"
    /\ cycle_idx < clienti_cycles
    /\ tables' = CycleRows(all_pages_lines, cycle_idx * CLIENTI_CYCLE)
    /\ row_idx' = 0
    /\ pc' = "rows"
    /\ UNCHANGED <<input, requested, tracking_info, field_result, batch, cycle_size, total_pages, cycle_idx, prices, out, err,
                   exit_code, page_idx, anchor_pages, handles, peak_handles>>

\* one iteration of `for row_idx in range(max_rows)`
ClientiRow ==
    /\ pc = "rows"
    /\ row_idx < MaxLen(tables)
    /\ customers' = IF customers_keep(ParsedCustomer(tables, row_idx))
                    THEN Append(customers, ParsedCustomer(tables, row_idx))
                    ELSE customers
    /\ row_idx' = row_idx + 1
    /\ UNCHANGED <<input, requested, tracking_info, field_result, all_tables, products, all_pages_lines, pc, cycle_size,
                   total_pages, cycle_idx, tables, prices, out, err, exit_code, page_idx,
                   anchor_pages, handles, peak_handles>>

ClientiEndCycle ==
    /\ pc = "rows"
    /\ row_idx >= MaxLen(tables)
    /\ cycle_idx' = cycle_idx + 1
    /\ pc' = "cycle"
    /\ UNCHANGED <<input, requested, tracking_info, field_result, batch, cycle_size, total_pages, tables, row_idx, prices, out, err,
                   exit_code, page_idx, anchor_pages, handles, peak_handles>>

\* return customers
ClientiReturn ==
    /\ pc = "cycle"
    /\ cycle_idx >= clienti_cycles
    /\ pc' = "returned"
    /\ UNCHANGED <<input, requested, tracking_info, field_result, batch, cycle_size, total_pages, cycle_idx, tables, row_idx, prices,
                   out, err, exit_code, page_idx, anchor_pages, handles, peak_handles>>

\* CustomerPDFParser(path).parse() on a document of the family or on a path
\* that does not exist
InitClienti ==
    /\ parser = "clienti"
    /\ argc = 2
    /\ \/ readable = TRUE /\ pdf \in ClientiDocuments
       \/ readable = FALSE /\ pdf = <<>>
    /\ pc = "main"
    /\ tracking_text = None
    /\ NoFieldCall
    /\ StartState

NextClienti ==
    \/ ClientiOpen
    \/ ClientiReadPage
    \/ ClientiParse
    \/ ClientiCycle
    \/ ClientiRow
    \/ ClientiEndCycle
    \/ ClientiReturn

SpecClienti == InitClienti /\ [][NextClienti]_vars

(***************************************************************************)
(* extract_tracking_info on its own: the text of the tracking cell is      *)
(* drawn from a family of texts (a courier's name or none, blanks, a       *)
(* number, as plain text or inside markup with or without a link), and     *)
(* the function is called on it once.                                      *)
(***************************************************************************)
TrackingPrefixes ==
    { <<"f","e","d","e","x">>, <<"F","e","d","E","x">>, <<"u","p","s">>, <<"U","P","S">>,
      <<"d","h","l">>, <<"t","n","t">>, <<"g","l","s">>,
      <<"b","a","r","t","o","l","i","n","i">>, <<"s","d","a">>, <<"b","r","t">>, <<>> }

TrackingSeparators == { <<" ">>, <<" ", "\n">> }

TrackingIdentifiers == { <<"4","4","5">>, <<"1","Z","9">>, <<"9","a","1">>, <<"4","A">> }

\* "fedex 445", or "445" alone
PlainTrackingTexts ==
    { x[1] \o x[2] \o x[3] :
        x \in (TrackingPrefixes \ {<<>>}) \X TrackingSeparators \X TrackingIdentifiers }
    \cup TrackingIdentifiers

X_LINK == <<"h","t","t","p",":","/","/","x","/","1">>

\* the values of the href attribute: a link, a link broken over two lines, a
\* link between blanks, a blank
TrackingLinks ==
    { X_LINK,
      SubSeq(X_LINK, 1, 9) \o <<"\n", " ">> \o SubSeq(X_LINK, 10, 10),
      <<" ">> \o X_LINK \o <<" ">>,
      <<" ">> }

Anchor(link, body) ==
    <<"<","a"," ","h","r","e","f","=","\"">> \o link \o <<"\"",">">> \o body
        \o <<"<","/","a",">">>

AnchorSingleQuotes(link, body) ==
    <<"<","A"," ","H","R","E","F"," ","="," ","'">> \o link \o <<"'",">">> \o body
        \o <<"<","/","A",">">>

Bold(body) == <<"<","b",">">> \o body \o <<"<","/","b",">">>

\* texts of several tokens that start with no courier's name, and one whose
\* courier's name is not followed by a number
UnprefixedTrackingTexts ==
    { <<"4","4","5"," ","a","b">>, <<"a","b"," ","4","4","5">>,
      <<"n","."," ","4","4","5">>, <<"a","b"," ","c","d">>,
      <<"a","1"," ","b","2">>, <<"1","Z","9"," ","x">>,
      <<"f","e","d","e","x"," ","a","b"," ","4","4","5">> }

TrackingTexts ==
    PlainTrackingTexts
    \cup UnprefixedTrackingTexts
    \cup { Anchor(x[1], x[2]) : x \in TrackingLinks \X PlainTrackingTexts }
    \cup { AnchorSingleQuotes(X_LINK, body) : body \in PlainTrackingTexts }
    \cup { Bold(body) : body \in PlainTrackingTexts }
    \cup { None, <<>>, <<" ">> }

InitTracking ==
    /\ parser = "ddt"
    /\ argc = 2
    /\ readable = TRUE
    /\ pdf = <<>>
    /\ pc = "call"
    /\ tracking_text \in TrackingTexts
    /\ NoFieldCall
    /\ StartState

\* tracking_number, courier_name, tracking_url = extract_tracking_info(text)
ExtractTracking ==
    /\ pc = "call"
    /\ tracking_info' = extract_tracking_info(tracking_text)
    /\ pc' = "returned"
    /\ UNCHANGED <<input, batch, requested, field_result, cycle_size, total_pages, cycle_idx, tables,
                   row_idx, prices, out, err, exit_code, page_idx, anchor_pages, handles,
                   peak_handles>>

NextTracking == ExtractTracking

SpecTracking == InitTracking /\ [][NextTracking]_vars

(***************************************************************************)
(* parse-saleslines-pdf.py: parse_italian_decimal.  A float is kept as the *)
(* characters of its repr(): sign, integer part without leading zeros, the *)
(* point, and the decimals without trailing zeros ("1234.56", "12.0").     *)
(* float() is written out for texts of digits, points, signs and blanks;   *)
(* any other character makes it raise ValueError.                          *)
(***************************************************************************)
ValueError == <<"ValueError">>

\* str.replace(a, b) for single characters
ReplaceChar(s, a, b) == [i \in 1..Len(s) |-> IF s[i] = a THEN b ELSE s[i]]

RECURSIVE StripTrailingZeros(_)
StripTrailingZeros(s) ==
    IF s # <<>> /\ s[Len(s)] = "0" THEN StripTrailingZeros(SubSeq(s, 1, Len(s) - 1)) ELSE s

RECURSIVE StripLeadingZeros(_)
StripLeadingZeros(s) ==
    IF s # <<>> /\ Head(s) = "0" THEN StripLeadingZeros(Tail(s)) ELSE s

OrZero(s) == IF s = <<>> THEN <<"0">> ELSE s

Float(neg, int_part, frac_part) ==
    (IF neg THEN <<"-">> ELSE <<>>) \o OrZero(StripLeadingZeros(int_part)) \o <<".">>
        \o OrZero(StripTrailingZeros(frac_part))

\* float() of an unsigned literal: digits with at most one point and at least
\* one digit
UnsignedFloat(neg, body) ==
    LET p == FirstIn(body, 1, {"."})
        int_part == SubSeq(body, 1, p - 1)
        frac_part == SubSeq(body, p + 1, Len(body))
    IN  IF AllDigits(int_part) /\ AllDigits(frac_part) /\ Len(int_part) + Len(frac_part) > 0
        THEN Float(neg, int_part, frac_part)
        ELSE ValueError

\* Python float(s) for a str: blanks around the literal are ignored
PyFloat(s) ==
    IF Strip(s) # <<>> /\ Head(Strip(s)) \in {"+", "-"}
    THEN UnsignedFloat(Head(Strip(s)) = "-", Tail(Strip(s)))
    ELSE UnsignedFloat(FALSE, Strip(s))

\* value.replace('€', '').replace('%', '').strip(), then
\* value.replace('.', '').replace(',', '.')
DecimalLiteral(value) ==
    ReplaceChar(RemoveAll(Strip(RemoveAll(value, {"€", "%"})), {"."}), ",", ".")

\* a faulty variant: the ValueError of float() is not caught
parse_italian_decimal_uncaught(value) ==
    IF Falsy(value) THEN None ELSE PyFloat(DecimalLiteral(value))

\* a faulty variant: the thousands separators are kept
parse_italian_decimal_keeping_points(value) ==
    IF Falsy(value) THEN None
    ELSE IF PyFloat(ReplaceChar(Strip(RemoveAll(value, {"€", "%"})), ",", ".")) = ValueError
    THEN None
    ELSE PyFloat(ReplaceChar(Strip(RemoveAll(value, {"€", "%"})), ",", "."))

parse_italian_decimal(value) ==
    IF Falsy(value) THEN None
    ELSE IF PyFloat(DecimalLiteral(value)) = ValueError THEN None
    ELSE PyFloat(DecimalLiteral(value))

(***************************************************************************)
(* parse-saleslines-pdf.py: one iteration of the row loop of               *)
(* parse_page_pair, for the rows row1 and row2 of the two tables.  A float *)
(* is the text of its repr; the arithmetic is exact, in hundredths for the *)
(* cells and in ten-thousandths for the product.                           *)
(***************************************************************************)
\* the digits of s followed by zeros up to the width n
PadRight(s, n) == [i \in 1..n |-> IF i <= Len(s) THEN s[i] ELSE "0"]

\* the number of hundredths of a float with at most two decimals
FloatCents(f) ==
    LET neg == Head(f) = "-"
        body == IF neg THEN Tail(f) ELSE f
        pt == FirstIn(body, 1, {"."})
        cents == 100 * ToInt(SubSeq(body, 1, pt - 1))
                     + ToInt(PadRight(SubSeq(body, pt + 1, Len(body)), 2))
    IN IF neg THEN 0 - cents ELSE cents

\* the float of n ten-thousandths, n >= 0
FloatOfTenThousandths(n) == Float(FALSE, Pad(n \div 10000, 6), Pad(n % 10000, 4))

\* `x or default` for a float or None: 0.0 and -0.0 are falsy
FloatIsFalsy(f) == f = None \/ FloatCents(f) = 0

\* max(0.0, min(100.0, discount_percent))
ClampedDiscount(d) ==
    IF FloatCents(d) < 0 THEN <<"0",".","0">>
    ELSE IF FloatCents(d) > 10000 THEN <<"1","0","0",".","0">>
    ELSE d

\* quantity * unit_price * (1 - (discount_percent or 0) / 100)
ComputedLineAmount(quantity, unit_price, discount_percent) ==
    FloatOfTenThousandths(
        (FloatCents(quantity) * FloatCents(unit_price)
            * (10000 - (IF FloatIsFalsy(discount_percent) THEN 0
                        ELSE FloatCents(discount_percent)))) \div 10000)

\* line_amount or (quantity * unit_price * (1 - (discount_percent or 0) / 100))
LineAmount(line_amount, quantity, unit_price, discount_percent) ==
    IF FloatIsFalsy(line_amount)
    THEN ComputedLineAmount(quantity, unit_price, discount_percent)
    ELSE line_amount

\* description without the article code it starts with
CleanDescription(description_raw, article_code) ==
    IF ~Falsy(description_raw) /\ ~Falsy(article_code)
          /\ StartsWithAt(description_raw, 1, article_code)
    THEN Strip(SubSeq(description_raw, Len(article_code) + 1, Len(description_raw)))
    ELSE description_raw

\* (row[k] or '').strip() if len(row) > k else None
StrippedCell(row, k) == IF Len(row) > k THEN Strip(OrEmpty(row[k + 1])) ELSE None

\* parse_italian_decimal(row[k]) if len(row) > k else None
DecimalCell(row, k) == IF Len(row) > k THEN parse_italian_decimal(row[k + 1]) ELSE None

\* ParsedArticle(...), its fields in the order of the dataclass
ParsedArticle(line_number, article_code, quantity, unit_price, discount_percent, line_amount, description) ==
    << IF Falsy(line_number) THEN <<>> ELSE line_number,
       article_code, quantity, unit_price,
       IF FloatIsFalsy(discount_percent) THEN <<"0",".","0">> ELSE discount_percent,
       LineAmount(line_amount, quantity, unit_price, discount_percent),
       description >>

\* the outcome of the row: what is yielded (<<>> when the row is dropped) and
\* the warnings printed
ArticleOutcome(line_number, article_code, quantity, unit_price, discount_percent, line_amount, description) ==
    IF Falsy(article_code) \/ quantity = None \/ unit_price = None
    THEN <<"skip", <<>>, <<>> >>
    ELSE IF FloatCents(quantity) <= 0
    THEN <<"skip", <<>>, <<"Warning: Invalid quantity">> >>
    ELSE IF FloatCents(unit_price) < 0
    THEN <<"skip", <<>>, <<"Warning: Invalid unit price">> >>
    ELSE IF discount_percent # None
            /\ (FloatCents(discount_percent) < 0 \/ FloatCents(discount_percent) > 10000)
    THEN <<"yield",
           ParsedArticle(line_number, article_code, quantity, unit_price,
                         ClampedDiscount(discount_percent), line_amount, description),
           <<"Warning: Invalid discount">> >>
    ELSE <<"yield",
           ParsedArticle(line_number, article_code, quantity, unit_price,
                         discount_percent, line_amount, description),
           <<>> >>

parse_page_pair_row(row1, row2) ==
    ArticleOutcome(StrippedCell(row1, 0), StrippedCell(row1, 1), DecimalCell(row1, 2),
                   DecimalCell(row1, 3), DecimalCell(row1, 5), DecimalCell(row2, 0),
                   CleanDescription(StrippedCell(row2, 2), StrippedCell(row1, 1)))

\* the rows of the two tables of a page pair
T_ART == <<"A","R","T">>

ArticleCodes == { T_ART, <<" ">>, None }

Quantities == { <<"2">>, <<"1">>, <<"0">>, <<"a","b","c">> }

UnitPrices == { <<"5",",","0","0"," ","€">>, <<"2",",","5","0">>, None }

Discounts ==
    { None, <<"0">>, <<"5","0">>, <<"2","5"," ","%">>, <<"1","5","0">>, <<"-","5">> }

LineAmountCells ==
    { <<"1","0",",","0","0"," ","€">>, <<"7",",","5","0">>, <<"0",",","0","0">>,
      <<"a","b","c">>, <<>>, None }

Descriptions == { T_ART \o <<"\n","V","i","t","e">>, <<"V","i","t","e">>, None }

LeftRows ==
    { <<T_A, x[1], x[2], x[3], <<"0">>, x[4]>> :
        x \in ArticleCodes \X Quantities \X UnitPrices \X Discounts }
    \cup { <<T_A, T_ART, <<"2">>, <<"2",",","5","0">>, <<"0">> >>, <<T_A, T_ART>> }

RightRows ==
    { <<x[1], T_A, x[2]>> : x \in LineAmountCells \X Descriptions } \cup { <<>> }

RowPairs == LeftRows \X RightRows

(***************************************************************************)
(* A field parser on its own: the parser and its argument are drawn from   *)
(* bounded sets, and the parser is called once.                            *)
(***************************************************************************)
DecimalGroups == { <<"1">>, <<"1","2">>, <<"2","3","4">> }

DecimalFractions == { <<"5">>, <<"5","6">>, <<"5","0">> }

DecimalSuffixes == { <<>>, <<" ","€">>, <<"€">>, <<" ","%">> }

\* "1.234,56 €": one or two groups of digits with a point between them, a
\* comma, decimals, and a currency symbol or none
ShapedDecimalTexts ==
    { x[1] \o <<",">> \o x[2] \o x[3] :
        x \in DecimalGroups \X DecimalFractions \X DecimalSuffixes }
    \cup { x[1] \o <<".">> \o x[2] \o <<",">> \o x[3] \o x[4] :
             x \in DecimalGroups \X DecimalGroups \X DecimalFractions \X DecimalSuffixes }

\* texts that are not of the shape: no comma, no digits before or after the
\* comma, two commas, a blank inside, a sign, letters, nothing
OtherDecimalTexts ==
    { <<"1","2">>, <<"1",".","2","3","4">>, <<"1","2",".","3","4">>, <<"5"," ","%">>,
      <<",","5">>, <<"5",",">>, <<"1",",","2",",","3">>, <<"1"," ","2","3","4",",","5">>,
      <<"-","5",",","0">>, <<"a","b","c">>, <<"1","2","a">>, <<"€">>, <<".">>, <<",">>,
      <<" ">>, <<>>, None }

DecimalTexts == ShapedDecimalTexts \cup OtherDecimalTexts

\* get_column_value on its own: header rows and data rows of up to MaxColumns
\* cells; a header has the label "id" in another case, is another header, or
\* is None; a cell has blanks around its text, is blank, empty or None
MaxColumns == 3

ColumnHeaders == { <<"I","d"," ","x">>, <<"N","O","M","E">>, None }

ColumnCells == { <<" ","a","\n">>, <<"b">>, <<" ">>, <<>>, None }

ColumnLabels == { <<"i","d">>, <<"N","O","M","E">> }

RowsOf(cells) == UNION { [1..n -> cells] : n \in 0..MaxColumns }

ColumnTables ==
    { <<>> } \cup { <<h>> : h \in RowsOf(ColumnHeaders) }
        \cup { <<h, d>> : h \in RowsOf(ColumnHeaders), d \in RowsOf(ColumnCells) }

\* the arguments (table, row_idx, header_text); the drivers call with the index
\* of a data row, which the table may not have
ColumnArguments == ColumnTables \X {1, 2} \X ColumnLabels

\* texts every field parser is called with: absent, empty, blank, a date, a
\* date that does not exist, a date with a time, a time that does not exist,
\* other separators, text over two lines, a tracking text, markup, an amount
FieldTexts ==
    { None, <<>>, <<" ">>, <<"\n"," ">>, <<"a","b","c">>,
      D_DAY, D_BAD, D_CREATED, <<" ">> \o D_DAY \o <<"\n">>,
      D_DAY \o <<" ","2","5",":","0","0",":","0","0">>,
      <<"1","/","2","/","2","0","2","6">>,
      <<"2","1","-","0","1","-","2","0","2","6">>,
      T_ADDR, <<" ","a"," "," ","b"," ">>, T_TRACK,
      <<"<","a",">">>, <<"&","n","b","s","p",";">>,
      <<"4","4","5"," ","a","b">>,
      <<"1",".","2","3","4",",","5","6"," ","€">> }

\* return (tracking_number, courier_name, tracking_url)
TrackingTriple(info) == <<info.tracking_number, info.courier_name, info.tracking_url>>

FieldParsers ==
    { "parse_italian_decimal", "get_column_value", "parse_italian_date",
      "parse_italian_datetime", "normalize_multiline", "extract_tracking_info",
      "parse_page_pair_row" }

FieldArguments(fn) ==
    CASE fn = "parse_italian_decimal" -> DecimalTexts \cup FieldTexts
      [] fn = "get_column_value" -> ColumnArguments
      [] fn = "extract_tracking_info" -> TrackingTexts \cup FieldTexts
      [] fn = "parse_page_pair_row" -> RowPairs
      [] OTHER -> FieldTexts

FieldCall(fn, arg) ==
    CASE fn = "parse_italian_decimal" -> parse_italian_decimal(arg)
      [] fn = "get_column_value" -> get_column_value(arg[1], arg[2], arg[3])
      [] fn = "parse_italian_date" -> parse_italian_date(arg)
      [] fn = "parse_italian_datetime" -> parse_italian_datetime(arg)
      [] fn = "normalize_multiline" -> normalize_multiline(arg)
      [] fn = "extract_tracking_info" -> TrackingTriple(extract_tracking_info(arg))
      [] fn = "parse_page_pair_row" -> parse_page_pair_row(arg[1], arg[2])

InitFields ==
    /\ parser = "orders"
    /\ argc = 2
    /\ readable = TRUE
    /\ pdf = <<>>
    /\ tracking_text = None
    /\ field_fn \in FieldParsers
    /\ field_arg \in FieldArguments(field_fn)
    /\ pc = "call"
    /\ StartState

\* result = fn(arg)
CallFieldParser ==
    /\ pc = "call"
    /\ field_fn # "none"
    /\ field_result' = FieldCall(field_fn, field_arg)
    /\ pc' = "returned"
    /\ UNCHANGED <<input, batch, requested, tracking_info, cycle_size, total_pages, cycle_idx, tables,
                   row_idx, prices, out, err, exit_code, page_idx, anchor_pages, handles,
                   peak_handles>>

NextFields == CallFieldParser

SpecFields == InitFields /\ [][NextFields]_vars

(***************************************************************************)
(* The cycle detector on its own: documents given by what the scan sees    *)
(* on each page.                                                           *)
(***************************************************************************)
ScanKinds ==
    {"anchor", "anchorLowerCase", "anchorSecondColumn", "other", "noTable", "raises"}

\* the label the detector of the parser looks for, in lower case between blanks
AnchorLowerCase(p) ==
    CASE p = "ddt" -> <<" ","p","d","f"," ","d","d","t"," ">>
      [] p = "prices" -> <<" ","i","d","\n">>

ScanPage(p, kind) ==
    CASE kind = "anchor" -> Page(<<Header(p, 1)>>)
      [] kind = "anchorLowerCase" -> Page(<< <<AnchorLowerCase(p), None>> >>)
      [] kind = "anchorSecondColumn" -> Page(<< <<None, Header(p, 1)[1]>>, <<T_A, T_B>> >>)
      [] kind = "other" -> Page(<<Header(p, 2)>>)
      [] kind = "noTable" -> Page(<<>>)
      [] kind = "raises" -> RaisingPage

ScanDocuments(p) ==
    UNION { [1..n -> { ScanPage(p, k) : k \in ScanKinds }] : n \in 0..MaxScanPages }

\* the scan window the specification names for the detector
ScanWindow == 200

\* a document longer than the window, with no anchor header on any page
LongScanDocuments(p) ==
    { [i \in 1..(ScanWindow + 1) |-> ScanPage(p, "other")] }

InitDetect ==
    /\ parser \in DetectingParsers
    /\ argc = 2
    /\ readable = TRUE
    /\ pdf \in ScanDocuments(parser) \cup LongScanDocuments(parser)
    /\ pc = "scan"
    /\ tracking_text = None
    /\ NoFieldCall
    /\ StartState

NextDetect ==
    \/ DetectOpen
    \/ DetectPage
    \/ DetectReturn

SpecDetect == InitDetect /\ [][NextDetect]_vars

\* the pages of the document that carry the anchor header, 0-based
AnchorPagesOf(doc) ==
    { i \in 0..(Len(doc) - 1) : ~doc[i + 1].raises /\ IsAnchor(parser, doc[i + 1].table) }

Least(S) == CHOOSE i \in S : \A j \in S : i <= j

FirstAnchor(doc) == Least(AnchorPagesOf(doc))

SecondAnchor(doc) == Least(AnchorPagesOf(doc) \ {FirstAnchor(doc)})

DetectorReturned == pc = "open"

DetectionDiagnostics == SelectSeq(err, LAMBDA l : l.kind = "CYCLE_SIZE_WARNING")

\* C4: when the anchor header first appears on page p and next on page p+k,
\* the detector returns k, whatever the expected size of the parser is
C4_DetectedSizeIsAnchorDistance ==
    (DetectorReturned /\ Cardinality(AnchorPagesOf(pdf)) >= 2)
        => cycle_size = SecondAnchor(pdf) - FirstAnchor(pdf)

\* the detector has returned 2 for anchors on pages 1 and 3: not the expected
\* size of either parser, and not the page of the second anchor
C4_Witness ==
    /\ DetectorReturned
    /\ Cardinality(AnchorPagesOf(pdf)) >= 2
    /\ FirstAnchor(pdf) = 1
    /\ SecondAnchor(pdf) = 3
    /\ cycle_size = 2

Emitted == IF parser = "prices" THEN prices ELSE out

NoExtractionFailure == \A i \in 1..Len(pdf) : ~pdf[i].raises

\* the number of complete cycles of the document
CompleteCycles == Len(pdf) \div cycle_size

\* the tables of the slots of complete cycle c (c = 0, 1, ...)
CycleTables(c) == [s \in 1..cycle_size |-> pdf[c * cycle_size + s].table]

\* the Python indices of the non-header rows of the anchor table of cycle c
AnchorRows(c) == 1..(Len(CycleTables(c)[1]) - 1)

RowResult(c, r) == parse_row(parser, CycleTables(c), r)

RejectedByFilter(c) == { r \in AnchorRows(c) : RowResult(c, r).outcome = "skip" }

FailingRequiredField(c) == { r \in AnchorRows(c) : RowResult(c, r).outcome = "raise" }

ExpectedCount(c) ==
    Cardinality(AnchorRows(c)) - Cardinality(RejectedByFilter(c))
        - Cardinality(FailingRequiredField(c))

\* the sum of ExpectedCount over the cycles 0 .. n-1
RECURSIVE ExpectedCountBefore(_)
ExpectedCountBefore(n) ==
    IF n = 0 THEN 0 ELSE ExpectedCountBefore(n - 1) + ExpectedCount(n - 1)

\* the records of the rows r .. last of cycle c, in order
RECURSIVE ExpectedRecordsFrom(_, _)
ExpectedRecordsFrom(c, r) ==
    IF r \notin AnchorRows(c) THEN <<>>
    ELSE (IF RowResult(c, r).outcome = "yield" THEN <<RowResult(c, r).record>> ELSE <<>>)
         \o ExpectedRecordsFrom(c, r + 1)

\* the records of the cycles 0 .. n-1, in order
RECURSIVE ExpectedRecordsBefore(_)
ExpectedRecordsBefore(n) ==
    IF n = 0 THEN <<>>
    ELSE ExpectedRecordsBefore(n - 1) \o ExpectedRecordsFrom(n - 1, 1)

\* the log lines of the failing rows r .. last of cycle c, in order
RECURSIVE ExpectedWarningsFrom(_, _)
ExpectedWarningsFrom(c, r) ==
    IF r \notin AnchorRows(c) THEN <<>>
    ELSE (IF RowResult(c, r).outcome = "raise"
          THEN <<Warning(IF parser = "prices" THEN c ELSE c * cycle_size, r)>>
          ELSE <<>>)
         \o ExpectedWarningsFrom(c, r + 1)

RECURSIVE ExpectedWarningsBefore(_)
ExpectedWarningsBefore(n) ==
    IF n = 0 THEN <<>>
    ELSE ExpectedWarningsBefore(n - 1) \o ExpectedWarningsFrom(n - 1, 1)

RowWarnings == SelectSeq(err, LAMBDA l : l.kind = "Warning")

\* every line on stderr that is neither the detector's nor about one row
SkipDiagnostics ==
    SelectSeq(err, LAMBDA l : l.kind \notin {"CYCLE_SIZE_WARNING", "Detected cycle size",
                                              "Warning", "ERROR", "DEBUG", "Error"})

PrimaryKeyOk(rec) ==
    /\ rec.id # None
    /\ Strip(rec.id) # <<>>
    /\ rec.id # <<"0">>

\* C1: between two cycles, the records emitted so far are as many as the anchor
\* rows of the cycles gone through, less the rows the filter rejects, less the
\* rows whose required field does not parse
C1_EmittedCountPerCycle ==
    (pc = "extract" /\ NoExtractionFailure)
        => Len(Emitted) = ExpectedCountBefore(cycle_idx)

\* prices has gone through a cycle whose second table is one row short
C1_Witness ==
    /\ parser = "prices"
    /\ pc = "extract"
    /\ cycle_idx = 1
    /\ Len(pdf) = 3
    /\ Len(pdf[1].table) = 3
    /\ Len(pdf[2].table) = 2
    /\ Len(pdf[3].table) = 3
    /\ Len(prices) = 1

\* C2: no record handed to the consumer has a primary key that is absent,
\* empty after trimming, or "0"
C2_NoBadPrimaryKey ==
    \A i \in 1..Len(Emitted) : PrimaryKeyOk(Emitted[i])

\* ddt has emitted a record whose id is absent
C2_Witness ==
    /\ parser = "ddt"
    /\ Len(out) > 0
    /\ out[Len(out)].id = None
    /\ out[Len(out)].ddt_number = T_DDT

(***************************************************************************)
(* The two-cycle scenario: two valid rows, then a "0" row and a row with   *)
(* an unparsable date.                                                     *)
(***************************************************************************)
Scenario(p, dateKind) ==
    PlainCycles(p, 1)
        \o CyclePages(p, [kinds |-> <<"keyZero", dateKind>>, mode |-> "full", which |-> 0])

\* the kinds of row whose only defect is a date that does not parse
OptionalDateKinds(p) == IF p \in GeneratorParsers THEN {"badDate"} ELSE {}

RequiredDateKinds(p) == IF p = "orders" THEN {"badRequired"} ELSE {}

\* the date the row kind spoils, as the field of the record
DateField(rec, dateKind) ==
    IF dateKind = "badRequired" THEN rec.creation_date
    ELSE IF parser = "invoices" THEN rec.invoice_date ELSE rec.delivery_date

D_DAY_ISO == <<"2","0","2","6","-","0","1","-","2","1">>

\* C3: in the scenario, whichever date of the last row does not parse, three
\* records are emitted, the third with that date absent
C3_UnparsableDateRowEmitted ==
    \A k \in OptionalDateKinds(parser) \cup RequiredDateKinds(parser) :
        (pc = "done" /\ pdf = Scenario(parser, k))
            => /\ Len(out) = 3
               /\ DateField(out[3], k) = None

\* C3, amended: an unparsable optional date leaves the row emitted with the date
\* absent (three records, the dates of the others parsed); an unparsable
\* required creation date of an order drops the row, which is logged with its
\* coordinates (two records); the "0" row is dropped in both cases
C3_OptionalDateAbsentRequiredDateDrops ==
    /\ \A k \in OptionalDateKinds(parser) :
          (pc = "done" /\ pdf = Scenario(parser, k))
              => /\ exit_code = 0
                 /\ Len(out) = 3
                 /\ \A i \in 1..3 : PrimaryKeyOk(out[i])
                 /\ DateField(out[1], k) = D_DAY_ISO
                 /\ DateField(out[2], k) = D_DAY_ISO
                 /\ DateField(out[3], k) = None
                 /\ RowWarnings = <<>>
    /\ \A k \in RequiredDateKinds(parser) :
          (pc = "done" /\ pdf = Scenario(parser, k))
              => /\ exit_code = 0
                 /\ Len(out) = 2
                 /\ \A i \in 1..2 : PrimaryKeyOk(out[i]) /\ out[i].creation_date # None
                 /\ RowWarnings = <<Warning(cycle_size, 2)>>

\* the scenario has run to its end on the invoices parser
C3_Witness ==
    /\ pc = "done"
    /\ parser = "invoices"
    /\ pdf = Scenario("invoices", "badDate")
    /\ Len(out) = 3
    /\ out[3].invoice_date = None
    /\ out[2].invoice_date = D_DAY_ISO

(***************************************************************************)
(* Skipped cycles and failures.                                            *)
(***************************************************************************)
HasPartialTail == Len(pdf) % cycle_size # 0

\* C6: a run on a document whose page count is no multiple of the cycle size
\* ends without failure, with exactly one skip diagnostic, and with exactly the
\* records of the complete cycles
C6_PartialTailSkippedWithDiagnostic ==
    (pc = "done" /\ NoExtractionFailure /\ HasPartialTail)
        => /\ exit_code = 0
           /\ Len(SkipDiagnostics) = 1
           /\ out = ExpectedRecordsBefore(CompleteCycles)

\* orders has ended on a document of one cycle and one more page
C6_Witness ==
    /\ pc = "done"
    /\ parser = "orders"
    /\ Len(pdf) = ORDERS_CYCLE + 1
    /\ exit_code = 0
    /\ Len(out) = 2
    /\ err = <<>>

\* the complete cycles whose anchor table is empty or has the header row only
BlankAnchorCycles ==
    { c \in 0..(CompleteCycles - 1) : Len(CycleTables(c)[1]) <= 1 }

\* C7: a cycle whose anchor table is empty or header-only gives no record and
\* one skip diagnostic, the run does not fail, and the other cycles give
\* their records
C7_BlankAnchorSkippedWithDiagnostic ==
    (pc = "done" /\ NoExtractionFailure /\ ~HasPartialTail /\ BlankAnchorCycles # {})
        => /\ exit_code = 0
           /\ Len(SkipDiagnostics) = Cardinality(BlankAnchorCycles)
           /\ Len(out) = ExpectedCountBefore(CompleteCycles)

\* orders has ended on a document whose first cycle has a header-only anchor
\* table and whose second cycle has two rows
C7_Witness ==
    /\ pc = "done"
    /\ parser = "orders"
    /\ Len(pdf) = 2 * ORDERS_CYCLE
    /\ Len(pdf[1].table) = 1
    /\ exit_code = 0
    /\ Len(out) = 2
    /\ err = <<>>

\* C8: a generator that ends on a document whose pages all extract has logged
\* exactly the failing rows, each with the first page of its cycle and its row
\* index, in order, and has emitted exactly the records of all the other rows
\* that pass the filter, in order
C8_RowFailureDropsOnlyThatRow ==
    (pc = "done" /\ NoExtractionFailure /\ parser \in GeneratorParsers)
        => /\ exit_code = 0
           /\ RowWarnings = ExpectedWarningsBefore(CompleteCycles)
           /\ out = ExpectedRecordsBefore(CompleteCycles)

\* orders has ended on two cycles: the first row of the first cycle failed and
\* was logged, the second row and the two rows of the second cycle are emitted
C8_Witness ==
    /\ pc = "done"
    /\ parser = "orders"
    /\ Len(pdf) = 2 * ORDERS_CYCLE
    /\ RowWarnings = <<Warning(0, 1)>>
    /\ Len(out) = 3

\* C9: a run on a document with a page whose extraction raises ends without
\* failure
C9_ExtractionFailureAbortsOnlyCycle ==
    (pc = "done" /\ ~NoExtractionFailure) => exit_code = 0

\* orders has ended with exit code 1 on a document whose second cycle has a page
\* that cannot be extracted; the two records of the first cycle were emitted
C9_Witness ==
    /\ pc = "done"
    /\ parser = "orders"
    /\ Len(pdf) = 2 * ORDERS_CYCLE
    /\ NoExtractionFailure = FALSE
    /\ exit_code = 1
    /\ Len(out) = 2

(***************************************************************************)
(* Rows beyond the table of a slot.                                        *)
(***************************************************************************)
\* the fields of a record that are read from slot s (s = 2, 3)
SlotFields(p, s) ==
    CASE p = "orders" /\ s = 2 -> {"delivery_name", "delivery_address"}
      [] p = "orders" /\ s = 3 ->
            {"creation_date", "delivery_date", "remaining_sales_financial"}
      [] p = "invoices" /\ s = 2 -> {"billing_name", "quantity", "sales_balance"}
      [] p = "invoices" /\ s = 3 ->
            {"line_sum", "discount_amount", "tax_sum", "invoice_amount"}
      [] p = "ddt" /\ s = 2 -> {"customer_account", "sales_name"}
      [] p = "ddt" /\ s = 3 -> {"delivery_name"}
      [] p = "prices" /\ s = 2 -> {"item_description", "da_data", "data", "quantita_p2"}
      [] p = "prices" /\ s = 3 ->
            {"quantita_p3", "unita_di_prezzo", "importo_unitario", "valuta",
             "prezzo_netto_brasseler"}

\* the cycles whose rows are all valid and whose slot 2 or 3 has a table one row
\* shorter than the anchor's, or no table
ShortShapes(p) ==
    { sh \in Shapes(p) : sh.mode \in {"short", "missing"} /\ sh.which \in ShortSlots(p) }

\* C10: on a document with a cycle whose last anchor row lies beyond the table
\* of slot 2 or 3 (or that slot has no table), the run logs no row failure and
\* emits the record of that row, the fields of that slot absent
C10_RowBeyondSlotEmittedWithAbsentFields ==
    \A sh \in ShortShapes(parser) : \A a, b \in 0..(MaxCycles - 1) :
        (pc = "done" /\ a + b < MaxCycles
            /\ pdf = PlainCycles(parser, a) \o CyclePages(parser, sh) \o PlainCycles(parser, b))
        => /\ exit_code = 0
           /\ RowWarnings = <<>>
           /\ Len(out) = 2 * (a + b) + Len(sh.kinds)
           /\ \A f \in SlotFields(parser, sh.which) :
                 out[2 * a + Len(sh.kinds)][f] = None

\* ddt has emitted the record of a second row that the table of slot 2 does not
\* have: the fields of slot 2 are absent, the others are present
C10_Witness ==
    /\ pc = "done"
    /\ parser = "ddt"
    /\ Len(pdf) = EXPECTED_CYCLE_SIZE
    /\ Len(pdf[1].table) = 3
    /\ Len(pdf[2].table) = 2
    /\ Len(out) = 2
    /\ out[2].customer_account = None
    /\ out[2].sales_name = None
    /\ out[2].delivery_name # None
    /\ out[1].customer_account # None

(***************************************************************************)
(* What the log accounts for.                                              *)
(***************************************************************************)
\* the coordinate the row warning of the parser gives the cycle
CycleCoordinate(c) == IF parser = "prices" THEN c ELSE c * cycle_size

\* C11: at the end of a run on a document whose pages all extract, every anchor
\* row of a complete cycle that gave no record has a line on stderr with its
\* cycle and row, and every skipped cycle (blank anchor table, partial tail) has
\* a line of its own
C11_EveryDropHasDiagnostic ==
    (pc = "done" /\ NoExtractionFailure)
        => /\ \A c \in 0..(CompleteCycles - 1) : \A r \in AnchorRows(c) :
                 RowResult(c, r).outcome # "yield"
                     => \E i \in 1..Len(err) : err[i] = Warning(CycleCoordinate(c), r)
           /\ Len(SkipDiagnostics) >=
                 Cardinality(BlankAnchorCycles) + (IF HasPartialTail THEN 1 ELSE 0)

\* orders has ended on one cycle whose first row has the id "0": the second row
\* is emitted and nothing at all is on stderr
C11_Witness ==
    /\ pc = "done"
    /\ parser = "orders"
    /\ Len(pdf) = ORDERS_CYCLE
    /\ Len(pdf[1].table) = 3
    /\ pdf[1].table[2][1] = T_ZERO
    /\ Len(out) = 1
    /\ err = <<>>

(***************************************************************************)
(* The line of totals of an export.                                        *)
(***************************************************************************)
FooterMarkers == { <<"C","o","u","n","t","=">>, <<"S","u","m","=">> }

BeginsWithFooterMarker(text) ==
    text # None /\ \E m \in FooterMarkers : StartsWithAt(text, 1, m)

\* C12: no record handed to the consumer has a primary key that begins with
\* "Count=" or "Sum="
C12_NoFooterRowEmitted ==
    \A i \in 1..Len(Emitted) : ~BeginsWithFooterMarker(Emitted[i].id)

\* orders has emitted the line of totals that follows a valid row as a record
\* of its own
C12_Witness ==
    /\ pc = "done"
    /\ parser = "orders"
    /\ Len(pdf) = ORDERS_CYCLE
    /\ Len(pdf[1].table) = 3
    /\ pdf[1].table[3][1] = T_COUNT
    /\ Len(out) = 2
    /\ out[2].id = T_COUNT
    /\ err = <<>>

(***************************************************************************)
(* How a run ends.                                                         *)
(***************************************************************************)
\* the process has exited: after going through the document ("done"), or without
\* having opened it ("failed")
Ended == pc \in {"done", "failed"}

\* C13: a run that goes through a document whose pages all extract exits with
\* 0, whatever it emitted and logged; a run exits with another code only when
\* the input could not be opened
C13_NonzeroExitOnlyWhenUnreadable ==
    /\ (pc = "done" /\ NoExtractionFailure) => exit_code = 0
    /\ (Ended /\ exit_code # 0) => ~readable

\* invoices has exited with 1 on a document it had opened and read one cycle
\* of: a page of the second cycle could not be extracted
C13_Witness ==
    /\ Ended
    /\ parser = "invoices"
    /\ argc = 2
    /\ readable
    /\ Len(pdf) = 2 * INVOICES_CYCLE
    /\ \E i \in (INVOICES_CYCLE + 1)..Len(pdf) : pdf[i].raises
    /\ Len(out) = 2
    /\ exit_code = 1


\* C14: on every path of a run (normal, warning, usage error, fatal error) every
\* line on stdout is a serialized record; error messages go to stderr only.
\* Stated for the products script, whose stdout is the variable out.
C14_StdoutOnlyRecords ==
    \A i \in 1..Len(out) : out[i] # ErrorObject

\* the products script started without a path: the error object is on stdout
C14_Witness ==
    /\ pc = "failed"
    /\ parser = "products"
    /\ argc = 1
    /\ out = <<ErrorObject>>
    /\ err = <<>>
    /\ exit_code = 1

\* C15: at every point of a run the driver holds the page tables of at most one
\* cycle: the number of retained tables never exceeds the cycle size, whatever
\* the length of the document.  Stated for the products script.
C15_AtMostOneCycleRetained ==
    Len(all_tables) <= cycle_size

\* the products script at the rows of the second cycle of a document of two
\* cycles, with the tables of all sixteen pages still in all_tables
C15_Witness ==
    /\ pc = "rows"
    /\ parser = "products"
    /\ cycle_idx = 1
    /\ Len(pdf) = 2 * PRODUCTS_PAGES_PER_CYCLE
    /\ Len(all_tables) = 2 * PRODUCTS_PAGES_PER_CYCLE


\* records that are assembled and not yet handed to the consumer: the generators
\* yield each record at once, prices keeps its records in the list until the end
Undelivered == IF parser = "prices" THEN Len(prices) - Len(out) ELSE 0

\* C16: records are produced lazily, one at a time: each surviving record is
\* handed to the consumer before the next row is assembled, so the engine never
\* holds more than one assembled record that is not yet delivered.
C16_AtMostOneUndelivered ==
    Undelivered <= 1

\* prices in the row loop with two records in its list and nothing on stdout
C16_Witness ==
    /\ pc = "rows"
    /\ parser = "prices"
    /\ Len(prices) = 2
    /\ out = <<>>


\* C17: at most one handle of the document is open at any moment of a run; the
\* handle of the detection pass, of the page count and of each cycle is released
\* before the next one is acquired, on cycle skips and exceptions too; no handle
\* is open when the run has ended.
C17_OneHandleReleasedOnEveryPath ==
    /\ handles \in {0, 1}
    /\ peak_handles <= 1
    /\ Ended => handles = 0

\* prices at the end of a run over two cycles: the first was skipped for a
\* missing table, the second had its rows read; three passes opened the document
C17_Witness ==
    /\ pc = "done"
    /\ parser = "prices"
    /\ Len(pdf) = 2 * PAGES_PER_CYCLE
    /\ \E i \in 1..Len(err) : err[i] = [kind |-> "Warning: Missing tables", cycle |-> 0]
    /\ Len(out) >= 1
    /\ handles = 0
    /\ peak_handles = 1


\* C18: every customer record the customers parser returns has a customer
\* profile id that is not absent and a name that is not empty, whatever the
\* pages contain.
C18_RequiredFieldsPresent ==
    \A i \in 1..Len(customers) :
        /\ ~Falsy(customers[i].customer_profile)
        /\ ~Falsy(customers[i].name)

\* parse() has returned, and its list holds a customer that was read from a
\* line with nothing but the profile id: the name is the empty string
C18_Witness ==
    /\ pc = "returned"
    /\ parser = "clienti"
    /\ \E i \in 1..Len(customers) :
          /\ customers[i].customer_profile = C_ID
          /\ customers[i].name = <<>>
          /\ customers[i].vat_number = None


\* the names of the courier vocabulary
CourierNames == { Couriers[i] : i \in 1..Len(Couriers) }

\* a courier's name, blanks, and one token of letters and digits
IsPrefixedIdentifier(t) ==
    /\ t # None
    /\ Len(Words(t)) = 2
    /\ Lower(Words(t)[1]) \in CourierNames
    /\ \A i \in 1..Len(Words(t)[2]) :
          IsDigit(Words(t)[2][i]) \/ LowerChar(Words(t)[2][i]) \in LowerLetters

\* C19: for a text that is a known courier's name, blanks and an identifier
\* (such as "fedex 445291890750") the extractor returns the courier's code in
\* upper case and, as the number, the identifier exactly as it is in the text.
C19_PrefixedIdentifierReturnedAsWritten ==
    (pc = "returned" /\ IsPrefixedIdentifier(tracking_text))
        => /\ tracking_info.courier_name = Upper(Words(tracking_text)[1])
           /\ tracking_info.tracking_number = Words(tracking_text)[2]

\* "ups 1Z9" gives the courier UPS and the number "1z9"
C19_Witness ==
    /\ pc = "returned"
    /\ tracking_text = <<"u","p","s"," ","1","Z","9">>
    /\ tracking_info.courier_name = <<"U","P","S">>
    /\ tracking_info.tracking_number = <<"1","z","9">>


\* the text has markup with a link: the href pattern matches
HasEmbeddedLink(t) == t # None /\ Strip(t) # <<>> /\ HrefGroup(t) # None

WithoutCurrencySymbol(v) ==
    IF RStrip(v) # <<>> /\ RStrip(v)[Len(RStrip(v))] = "€"
    THEN RStrip(SubSeq(RStrip(v), 1, Len(RStrip(v)) - 1))
    ELSE v

\* groups of digits with points between them, a comma, decimals, and a
\* currency symbol or none at the end
IsLocaleDecimal(v) ==
    /\ v # None
    /\ Len(SplitOn(WithoutCurrencySymbol(v), ",")) = 2
    /\ SplitOn(WithoutCurrencySymbol(v), ",")[2] # <<>>
    /\ AllDigits(SplitOn(WithoutCurrencySymbol(v), ",")[2])
    /\ \A i \in 1..Len(SplitOn(SplitOn(WithoutCurrencySymbol(v), ",")[1], ".")) :
          /\ SplitOn(SplitOn(WithoutCurrencySymbol(v), ",")[1], ".")[i] # <<>>
          /\ AllDigits(SplitOn(SplitOn(WithoutCurrencySymbol(v), ",")[1], ".")[i])

\* the number of the groups put together and the decimals
LocaleDecimalValue(v) ==
    Float(FALSE, RemoveAll(SplitOn(WithoutCurrencySymbol(v), ",")[1], {"."}),
          SplitOn(WithoutCurrencySymbol(v), ",")[2])

DecimalReturned == pc = "returned" /\ field_fn = "parse_italian_decimal"

AnchorLabel(p) ==
    CASE p = "ddt" -> <<"D","D","T">>
      [] p = "prices" -> <<"I","D">>

\* the header of the first column of the table has the label, in any case
FirstColumnHasLabel(p, table) ==
    /\ table # <<>>
    /\ Len(table[1]) > 0
    /\ Contains(Upper(OrEmpty(table[1][1])), AnchorLabel(p))

\* the label is in the header of a later column and not in the first one
LabelOnlyInLaterColumn(p, table) ==
    /\ ~FirstColumnHasLabel(p, table)
    /\ table # <<>>
    /\ \E i \in 2..Len(table[1]) : Contains(Upper(OrEmpty(table[1][i])), AnchorLabel(p))

\* C23: the detector counts a page as an anchor page only when the header of
\* the first column of the page's first table equals or contains the anchor
\* label, in any case; a page with the label only in the header of a later
\* column is not counted.
C23_AnchorOnlyByFirstColumn ==
    \A i \in 1..Len(anchor_pages) :
        FirstColumnHasLabel(parser, pdf[anchor_pages[i] + 1].table)

\* the ddt detector has counted a page whose label is in the second column only
C23_Witness ==
    /\ parser = "ddt"
    /\ pc = "detect"
    /\ \E i \in 1..Len(anchor_pages) :
          LabelOnlyInLaterColumn(parser, pdf[anchor_pages[i] + 1].table)

\* the prices detector has passed a page whose label is in the second column
\* only without counting it
C23_PricesSkipsLaterColumn ==
    /\ parser = "prices"
    /\ pc = "detect"
    /\ page_idx >= 1
    /\ LabelOnlyInLaterColumn(parser, pdf[1].table)
    /\ anchor_pages = <<>>


\* the detector is scanning or has returned; page_idx pages have been inspected
DetectorAtWork == pc = "detect" \/ DetectorReturned

\* C24: the detector stops inspecting pages as soon as the second anchor page
\* is found, and with fewer than two anchors it inspects no more than the
\* window of 200 leading pages before it falls back, however long the document.
C24_StopsAtSecondAnchorOrWindow ==
    DetectorAtWork
        => /\ Len(anchor_pages) >= 2 => page_idx = anchor_pages[2] + 1
           /\ page_idx <= ScanWindow

\* the first half alone: no page after the second anchor page is inspected
C24_StopsAtSecondAnchor ==
    DetectorAtWork
        => /\ Len(anchor_pages) <= 2
           /\ Len(anchor_pages) = 2 => page_idx = anchor_pages[2] + 1

\* in a document with no anchor the detector has inspected a page past the
\* window and then fallen back to the expected size
C24_Witness ==
    /\ DetectorReturned
    /\ Len(pdf) > ScanWindow
    /\ anchor_pages = <<>>
    /\ page_idx = Len(pdf)
    /\ cycle_size = Layout(parser)

\* the detector has stopped at the second anchor with pages left unread
C24_StoppedEarly ==
    /\ DetectorReturned
    /\ Len(anchor_pages) = 2
    /\ page_idx < Len(pdf)


\* the driver has extracted the pages of a cycle
CycleExtracted == requested.cycle >= 0

\* the page window of cycle i: [i*k, i*k + k)
CycleWindow(i) == (i * cycle_size)..(i * cycle_size + cycle_size - 1)

\* the first page asked for is the first page of the window
StartsAtWindowStart(r) == (r.cycle * cycle_size) \in r.pages

\* C22: with the cycle size k fixed at the start of the run, the i-th cycle
\* the driver processes is the page window [i*k, i*k+k), counted from page 0
\* wherever the first anchor was found; every page the driver reads for cycle
\* i is inside that window, and no page index past the end of the document is
\* asked for.
C22_ReadsInsideCycleWindow ==
    CycleExtracted
        => /\ StartsAtWindowStart(requested)
           /\ requested.pages \subseteq CycleWindow(requested.cycle)
           /\ \A i \in requested.pages : i < Len(pdf)

\* the same for the generators alone (orders, invoices, ddt)
C22_GeneratorsReadInsideCycleWindow ==
    (CycleExtracted /\ parser \in GeneratorParsers)
        => /\ StartsAtWindowStart(requested)
           /\ requested.pages \subseteq CycleWindow(requested.cycle)
           /\ \A i \in requested.pages : i < Len(pdf)

\* prices, with a detected size of 2, has read page 2 for cycle 0
C22_Witness ==
    /\ parser = "prices"
    /\ cycle_size = 2
    /\ requested = [cycle |-> 0, pages |-> {0, 1, 2}]

\* prices, with a detected size of 2, has asked for page 4 of a document of
\* four pages
C22_PastTheEnd ==
    /\ parser = "prices"
    /\ Len(pdf) = 4
    /\ 4 \in requested.pages

\* ddt has read its second window from page k on although the first anchor
\* is on page 1
C22_WindowsFromPageZero ==
    /\ parser = "ddt"
    /\ anchor_pages # <<>>
    /\ anchor_pages[1] = 1
    /\ requested = [cycle |-> 1, pages |-> CycleWindow(1)]


ColumnValueReturned == pc = "returned" /\ field_fn = "get_column_value"

\* the columns of the table whose header contains the label, in any case
LabelColumns(table, label) ==
    IF table = <<>> THEN {}
    ELSE { c \in 1..Len(table[1]) :
             table[1][c] # None /\ Contains(Upper(table[1][c]), Upper(label)) }

FirstLabelColumn(table, label) ==
    CHOOSE c \in LabelColumns(table, label) : \A d \in LabelColumns(table, label) : c <= d

\* the row of that Python index has a cell in column c that is not None
HasCell(table, r, c) ==
    /\ r < Len(table)
    /\ c <= Len(table[r + 1])
    /\ table[r + 1][c] # None

\* C25: for every table, row index and label, the resolution by header text
\* returns the trimmed cell of that row in the first column whose header
\* contains the label in any case; it returns absent when no header contains
\* the label, when the row has no such cell, or when the cell is empty or
\* blank; a later column whose header contains the label too is never used.
C25_FirstMatchingColumnTrimmed ==
    ColumnValueReturned
        => IF LabelColumns(field_arg[1], field_arg[3]) = {}
           THEN field_result = None
           ELSE IF ~HasCell(field_arg[1], field_arg[2],
                            FirstLabelColumn(field_arg[1], field_arg[3]))
           THEN field_result = None
           ELSE IF Strip(field_arg[1][field_arg[2] + 1]
                             [FirstLabelColumn(field_arg[1], field_arg[3])]) = <<>>
           THEN field_result = None
           ELSE field_result =
                   Strip(field_arg[1][field_arg[2] + 1]
                             [FirstLabelColumn(field_arg[1], field_arg[3])])

\* the label is in the headers of columns 2 and 3; the cell of column 2 has
\* come back trimmed, not the cell of column 3
C25_Witness ==
    /\ ColumnValueReturned
    /\ field_arg = << << <<None, <<"I","d"," ","x">>, <<"I","d"," ","x">> >>,
                         <<None, <<" ","a","\n">>, <<"b">> >> >>,
                      1, <<"i","d">> >>
    /\ field_result = <<"a">>

\* the cell of the first matching column is blank and the cell of the later
\* matching column is not: absent has come back
C25_BlankFirstMatchGivesAbsent ==
    /\ ColumnValueReturned
    /\ field_arg = << << << <<"I","d"," ","x">>, <<"I","d"," ","x">> >>,
                         << <<" ">>, <<"b">> >> >>,
                      1, <<"i","d">> >>
    /\ field_result = None


\* the parsers of one field: date, date-time, locale decimal, composite
\* reference, cell text
TextFieldParsers ==
    { "parse_italian_date", "parse_italian_datetime", "parse_italian_decimal",
      "extract_tracking_info", "normalize_multiline" }

\* what a parser returns for absent: None, and for the composite reference
\* the triple of None
Absent(fn) ==
    IF fn = "extract_tracking_info" THEN <<None, None, None>> ELSE None

\* C26: every field parser (date, date-time, locale decimal, composite
\* reference, cell text) is total: for every input, an absent value, the empty
\* string, blanks only and text that cannot be parsed included, it returns a
\* parsed value or absent, and it never raises.
C26_FieldParsersNeverRaise ==
    (pc = "returned" /\ field_fn \in TextFieldParsers)
        => /\ field_result # ValueError
           /\ Falsy(field_arg) => field_result = Absent(field_fn)

\* float("abc") has raised inside parse_italian_decimal, and None has come back
C26_Witness ==
    /\ pc = "returned"
    /\ field_fn = "parse_italian_decimal"
    /\ field_arg = <<"a","b","c">>
    /\ PyFloat(DecimalLiteral(field_arg)) = ValueError
    /\ field_result = None

\* the date-time parser has been called with blanks only
C26_BlankTextParsed ==
    /\ pc = "returned"
    /\ field_fn = "parse_italian_datetime"
    /\ field_arg = <<" ">>
    /\ field_result = None


HasDigit(s) == \E i \in 1..Len(s) : IsDigit(s[i])

\* a text without markup whose first token is no courier's name
IsUnprefixed(t) ==
    /\ t # None
    /\ \A i \in 1..Len(t) : t[i] \notin {"<", "&"}
    /\ Words(t) # <<>>
    /\ Lower(Words(t)[1]) \notin CourierNames

\* the tokens of the text that have a digit, in their order
TokensWithDigit(t) == SelectSeq(Words(t), HasDigit)

\* C27: when no known courier's prefix matches the text, the number returned
\* is the last token of the text, split at blanks, that has a digit (absent
\* only when no token has a digit), and the courier is unknown.
C27_LastTokenWithDigit ==
    (pc = "returned" /\ IsUnprefixed(tracking_text))
        => /\ tracking_info.courier_name = None
           /\ tracking_info.tracking_number =
                 IF TokensWithDigit(tracking_text) = <<>> THEN None
                 ELSE TokensWithDigit(tracking_text)[Len(TokensWithDigit(tracking_text))]

\* "445 ab" has a token with a digit and no number has come back
C27_Witness ==
    /\ pc = "returned"
    /\ tracking_text = <<"4","4","5"," ","a","b">>
    /\ tracking_info.courier_name = None
    /\ tracking_info.tracking_number = None

\* "ab 445" has given the number "445" and no courier
C27_LastTokenReturned ==
    /\ pc = "returned"
    /\ tracking_text = <<"a","b"," ","4","4","5">>
    /\ tracking_info.courier_name = None
    /\ tracking_info.tracking_number = <<"4","4","5">>

\* the statement for the texts whose last token has a digit and no capital
C27_LastTokenWhenItHasDigit ==
    (pc = "returned" /\ IsUnprefixed(tracking_text)
        /\ HasDigit(Words(tracking_text)[Len(Words(tracking_text))])
        /\ Lower(tracking_text) = tracking_text)
        => /\ tracking_info.courier_name = None
           /\ tracking_info.tracking_number = Words(tracking_text)[Len(Words(tracking_text))]


\* the text is not blank and has no href
HasNoEmbeddedLink(t) == t # None /\ Strip(t) # <<>> /\ HrefGroup(t) = None

\* C28: when the text has no explicit link, a link is made from the template
\* of the resolved courier, for every courier of the vocabulary of prefixes;
\* the link is absent only when the courier is unknown.
C28_LinkForEveryCourier ==
    (pc = "returned" /\ HasNoEmbeddedLink(tracking_text)
        /\ tracking_info.courier_name # None)
        => /\ tracking_info.tracking_url # None
           /\ Contains(tracking_info.tracking_url, tracking_info.tracking_number)

\* "tnt 445": the courier is TNT, the number 445, and there is no link
C28_Witness ==
    /\ pc = "returned"
    /\ tracking_text = <<"t","n","t"," ","4","4","5">>
    /\ tracking_info.courier_name = <<"T","N","T">>
    /\ tracking_info.tracking_number = <<"4","4","5">>
    /\ tracking_info.tracking_url = None

\* the statement for the couriers other than TNT
C28_LinkForCouriersWithTemplate ==
    (pc = "returned" /\ HasNoEmbeddedLink(tracking_text)
        /\ tracking_info.courier_name # None
        /\ tracking_info.courier_name # <<"T","N","T">>)
        => /\ tracking_info.tracking_url # None
           /\ Contains(tracking_info.tracking_url, tracking_info.tracking_number)

\* without a link and without a courier there is no link
C28_NoLinkWithoutCourier ==
    (pc = "returned" /\ HasNoEmbeddedLink(tracking_text)
        /\ tracking_info.courier_name = None)
        => tracking_info.tracking_url = None

\* "gls 445" has been given the link of GLS
C28_LinkMade ==
    /\ pc = "returned"
    /\ tracking_text = <<"g","l","s"," ","4","4","5">>
    /\ tracking_info.tracking_url
          = GeneratedUrl(<<"G","L","S">>, <<"4","4","5">>)


\* the validity filter of parse_ddt_pdf on a row of the anchor table: the DDT
\* number and the order number are there, and neither the ID nor the DDT
\* number is "0"
DdtRowPasses(row) ==
    /\ Len(row) >= 5
    /\ ~Falsy(row[3])
    /\ ~Falsy(row[5])
    /\ row[2] # <<"0">>
    /\ row[3] # <<"0">>

\* the rows below the header of the table that pass the filter
PassingRows(table) == Cardinality({ r \in 2..Len(table) : DdtRowPasses(table[r]) })

\* the rows that pass the filter in the anchor tables of the first n windows
RECURSIVE PassingRowsOfWindows(_)
PassingRowsOfWindows(n) ==
    IF n = 0 THEN 0
    ELSE PassingRowsOfWindows(n - 1) + PassingRows(pdf[(n - 1) * cycle_size + 1].table)

\* the ddt detector has returned a size below the expected one
DdtSmallCycle ==
    /\ parser = "ddt"
    /\ pc \in {"open", "extract", "rows", "done"}
    /\ Len(anchor_pages) >= 2
    /\ cycle_size < EXPECTED_CYCLE_SIZE

\* C29: the ddt parser reads its slots at the fixed positions 0, 1, 2, 4, 5 of
\* a window as long as the detected cycle size; when the detector returns a
\* size below 6, every row that passes the validity filter fails with a
\* warning logged for that row, and the run ends normally with no record.
C29_SmallCycleOnlyWarnings ==
    DdtSmallCycle
        => /\ out = <<>>
           /\ exit_code \in {-1, 0}
           /\ pc = "done" =>
                 /\ exit_code = 0
                 /\ Len(RowWarnings) = PassingRowsOfWindows(Len(pdf) \div cycle_size)

\* with a size of 5 the run has ended normally: no record, and a warning for
\* each of the four rows that passed the filter
C29_Witness ==
    /\ DdtSmallCycle
    /\ cycle_size = 5
    /\ pc = "done"
    /\ exit_code = 0
    /\ out = <<>>
    /\ Len(RowWarnings) = 4

\* a row that the filter rejects has left no warning: three rows passed, one
\* did not
C29_RejectedRowNotLogged ==
    /\ DdtSmallCycle
    /\ pc = "done"
    /\ Len(pdf[1].table) = 3
    /\ Len(RowWarnings) = 3


\* the row loop of parse_page_pair has yielded an article for the row
ArticleYielded ==
    pc = "returned" /\ field_fn = "parse_page_pair_row" /\ field_result[1] = "yield"

\* what the cell of the line amount of the row parses to, None when the row
\* has no such cell or it does not parse
ParsedLineAmountCell ==
    IF Len(field_arg[2]) > 0 THEN parse_italian_decimal(field_arg[2][1]) ELSE None

\* line_amount of the article yielded
EmittedLineAmount == field_result[2][6]

\* C30: in the line-items parser, whenever the cell of the line amount of a
\* row parses to a number, the line_amount emitted is that number; the value
\* quantity * unit_price * (1 - discount/100) is used only when the cell is
\* absent or does not parse.
C30_ParsedLineAmountEmitted ==
    (ArticleYielded /\ ParsedLineAmountCell # None)
        => EmittedLineAmount = ParsedLineAmountCell

\* the cell "0,00" parses to 0.0, and the article of 2 pieces at 5,00 has the
\* line_amount 10.0
C30_Witness ==
    /\ ArticleYielded
    /\ Len(field_arg[2]) > 0
    /\ field_arg[2][1] = <<"0",",","0","0">>
    /\ ParsedLineAmountCell = <<"0",".","0">>
    /\ field_result[2][3] = <<"2",".","0">>
    /\ field_result[2][4] = <<"5",".","0">>
    /\ EmittedLineAmount = <<"1","0",".","0">>

\* the statement for the cells that parse to another number than zero
C30_NonzeroLineAmountEmitted ==
    (ArticleYielded /\ ParsedLineAmountCell # None /\ FloatCents(ParsedLineAmountCell) # 0)
        => EmittedLineAmount = ParsedLineAmountCell

\* the cell "7,50" has been emitted as 7.5 although the computed amount is 10.0
C30_CellPreferred ==
    /\ ArticleYielded
    /\ ParsedLineAmountCell = <<"7",".","5">>
    /\ EmittedLineAmount = <<"7",".","5">>
    /\ ComputedLineAmount(field_result[2][3], field_result[2][4], field_result[2][5])
          = <<"1","0",".","0">>

\* without a cell that parses the computed amount is emitted
C30_ComputedWhenCellAbsent ==
    (ArticleYielded /\ ParsedLineAmountCell = None)
        => EmittedLineAmount
              = ComputedLineAmount(field_result[2][3], field_result[2][4], field_result[2][5])

====
